---------------------------- MODULE Spec2Model ----------------------------
(***************************************************************************)
(* NASClient (src/module/api.py): the session client and the paginator of  *)
(* the NAS log viewer.  One client instance, one blocking caller.  A call  *)
(* is entered by one action and then advances by one action per network    *)
(* attempt (session.get), the server's answer being chosen by the          *)
(* environment; between two attempts no other call can start.              *)
(* System_Log (src/module/system_log.py) and FilesStation_Log              *)
(* (src/module/filestation_log.py): the export buffers.  LogSpec follows   *)
(* one instance of either class through add_log and save_to_file.          *)
(***************************************************************************)
EXTENDS Integers, Sequences, FiniteSets, TLC

(* ------------------------------ bounds -------------------------------- *)
\* largest page_size / limit a caller passes
MaxPageSize == 2
\* fetch_logs_page calls the model follows inside one fetch_all_logs call
MaxPages == 2
\* records an aggregator's buffer holds before the model stops adding
MaxLogs == 2
\* items of one fetch the window searches through
MaxBatch == 2

(* ------------------------- program constants -------------------------- *)
\* stop_after_attempt(3)
MaxAttempts == 3
\* wait_fixed(2)
WaitFixed == 2

(* ------------------------------ values -------------------------------- *)
\* Python None as the value of self.sid
None == "<None>"
\* tokens a server may place in data.sid (the empty string is a JSON string too)
Tokens == {"", "sid1", "sid2"}
\* Python None as the value of data.get("error", {}).get("code")
NoCode == -1
\* error codes a server may send: the catalog's, 405, one uncatalogued, none
Codes == (400..410) \cup {119, NoCode}
LogTypes == {"system", "filestation"}
\* page sizes a caller may pass: a negative one, zero, positive ones
PageSizes == -1..MaxPageSize
Offsets == 0..MaxPageSize
\* payloads of log records: two are enough to tell order and repetition
Records == {"r1", "r2"}

RECURSIVE SeqsUpTo(_)
\* all sequences of Records of length <= n
SeqsUpTo(n) ==
    IF n <= 0 THEN {<< >>}
    ELSE LET shorter == SeqsUpTo(n - 1)
         IN  shorter \cup {Append(s, r) : s \in {t \in shorter : Len(t) = n - 1}, r \in Records}

\* item lists a server may return for a request with this limit: fewer than,
\* exactly, or more than the limit
PageItems(limit) == SeqsUpTo(IF limit < 0 THEN 1 ELSE limit + 1)

\* every item list of the model
AnyItems == SeqsUpTo(MaxPageSize + 1)

NoResult == [kind |-> "none"]
Return(v) == [kind |-> "return", value |-> v]
Raise(type, msg) == [kind |-> "raise", exc |-> type, msg |-> msg]

(* --------------------------- error catalog ---------------------------- *)
ERROR_MESSAGES ==
    [c \in {400, 401, 402, 403, 404, 406, 407, 408, 409, 410} |->
        CASE c = 400 -> "no such account or wrong password"
          [] c = 401 -> "account disabled"
          [] c = 402 -> "permission denied"
          [] c = 403 -> "2FA code required"
          [] c = 404 -> "2FA verification failed"
          [] c = 406 -> "2FA must be enabled"
          [] c = 407 -> "IP blocked"
          [] c = 408 -> "password expired and cannot be changed"
          [] c = 409 -> "password expired"
          [] c = 410 -> "password must be changed"]

\* mutant of get_error_message: the unknown-error text does not carry the code
get_error_message_without_code(error_code) ==
    IF error_code \in DOMAIN ERROR_MESSAGES
    THEN ERROR_MESSAGES[error_code]
    ELSE "unknown error"

\* ERROR_MESSAGES.get(error_code, f"... {error_code}")
get_error_message(error_code) ==
    IF error_code \in DOMAIN ERROR_MESSAGES
    THEN ERROR_MESSAGES[error_code]
    ELSE "unknown error (code: "
            \o (IF error_code = NoCode THEN "None" ELSE ToString(error_code)) \o ")"

(* -------------------------------- state ------------------------------- *)
VARIABLES
    sid,            \* self.sid
    pc,             \* "idle", or the network call the running operation is at
    op,             \* the operation running, or the last one that ended
    args,           \* its arguments
    result,         \* what the last ended operation returned or raised
    attempt_number, \* tenacity's attempt number at each retry level of the call
    idle_for,       \* time the innermost retried call has spent in tenacity's wait
    all_items,      \* fetch_all_logs: all_items
    offset,         \* fetch_all_logs: offset
    limit,          \* fetch_all_logs: limit
    page_reqs,      \* the fetch_logs_page calls of the running fetch_all_logs
    pages,          \* the item lists those calls returned
    net_count,      \* session.get calls of the innermost retried call (of logout)
    last_req,       \* parameters of the last session.get
    last_resp,      \* what the last session.get brought back
    logged_out,     \* a logout was confirmed by the server and no login has returned since
    cb_password,    \* clear_password_callback invocations of the operation
    cb_otp,         \* clear_otp_callback invocations of the operation
    sid_before      \* self.sid when the operation was entered

VARIABLES
    log_class,      \* the class of the aggregator instance, None before it is built
    logs,           \* self.logs
    log_file,       \* the workbook at the path self.log_file
    log_call,       \* the last call on the instance
    log_result,     \* what that call returned or raised
    to_excel_calls, \* df.to_excel calls made by that call
    filtered_logs,  \* self.system_filtered_logs / self.filestation_filtered_logs
    current_page,   \* self.system_current_page / self.filestation_current_page
    win_call        \* the last call on the window and the message it showed

\* the state outside the client
app_vars == <<log_class, logs, log_file, log_call, log_result, to_excel_calls,
              filtered_logs, current_page, win_call>>

vars == <<sid, pc, op, args, result, attempt_number, idle_for, all_items, offset,
          limit, page_reqs, pages, net_count, last_req, last_resp, logged_out,
          cb_password, cb_otp, sid_before, app_vars>>

locals == <<all_items, offset, limit, page_reqs, pages>>
callbacks == <<cb_password, cb_otp>>

NoReq == [api |-> "none"]
NoResp == [kind |-> "none"]
FirstAttempt == [net |-> 1, all |-> 1, wrap |-> 1]

\* no file at the path yet
NoFile == [state |-> "absent", header |-> << >>, rows |-> << >>]

\* NASClient.__init__
ClientInit ==
    /\ sid = None
    /\ pc = "idle"
    /\ op = "__init__"
    /\ args = << >>
    /\ result = NoResult
    /\ attempt_number = FirstAttempt
    /\ idle_for = 0
    /\ all_items = << >>
    /\ offset = 0
    /\ limit = 0
    /\ page_reqs = << >>
    /\ pages = << >>
    /\ net_count = 0
    /\ last_req = NoReq
    /\ last_resp = NoResp
    /\ logged_out = FALSE
    /\ cb_password = 0
    /\ cb_otp = 0
    /\ sid_before = None

\* the client alone: no aggregator has been built
Init ==
    /\ ClientInit
    /\ log_class = None
    /\ logs = << >>
    /\ log_file = NoFile
    /\ log_call = [name |-> "none"]
    /\ log_result = NoResult
    /\ to_excel_calls = 0
    /\ filtered_logs = << >>
    /\ current_page = 1
    /\ win_call = [name |-> "none"]

(* ------------------------------ tenacity ------------------------------ *)
\* mutant of retry_if_exception_type: every exception is retried
retry_if_any_exception(exc) == TRUE

\* retry_if_exception_type(requests.RequestException)
retry_if_exception_type(exc) == exc = "RequestException"

\* mutant of stop_after_attempt: the call gives up after the second attempt
stop_after_two(n) == n >= 2

\* mutant of stop_after_attempt: a fourth attempt is allowed
stop_after_four(n) == n >= 4

\* stop_after_attempt(3)
stop_after_attempt(n) == n >= MaxAttempts

\* mutant of RetryDecision: the exception type is not looked at
RetryDecisionAnyType(exc, n) == IF n >= MaxAttempts THEN "RetryError" ELSE "retry"

\* what the @retry wrapper does with an exception raised by attempt n of the
\* function it wraps: hand it on unchanged, wait and call again, or give up
\* with RetryError (reraise is not set)
RetryDecision(exc, n) ==
    IF ~retry_if_exception_type(exc) THEN "reraise"
    ELSE IF stop_after_attempt(n) THEN "RetryError"
    ELSE "retry"

\* transport-level failures of session.get / raise_for_status / response.json
TransportErrors == {"ConnectionError", "Timeout"}
RequestException(e) == Raise("RequestException", e)
RetryError(e) == Raise("RetryError", "RetryError[" \o e.msg \o "]")

\* mutant of NotSid: no token value counts as absent
NotSidNever(s) == FALSE

\* mutant of NotSid: only the empty string counts as no token
NotSidOnlyEmpty(s) == s = ""

\* `not self.sid`
NotSid(s) == s = None \/ s = ""

\* a call is entered: the caller is blocked until pc is "idle" again
Enter(name, a) ==
    /\ pc = "idle"
    /\ op' = name
    /\ args' = a
    /\ sid_before' = sid
    /\ attempt_number' = FirstAttempt
    /\ idle_for' = 0
    /\ net_count' = 0
    /\ last_req' = NoReq
    /\ last_resp' = NoResp
    /\ cb_password' = 0
    /\ cb_otp' = 0
    /\ all_items' = << >>
    /\ offset' = 0
    /\ limit' = 0
    /\ pages' = << >>

\* what a session.get can bring back
TransportError(e) == [kind |-> "transport", error |-> e]
Json(body) == [kind |-> "json", body |-> body]

\* session.get(url, params=..., timeout=10)
Get(params, resp) ==
    /\ net_count' = net_count + 1
    /\ last_req' = params
    /\ last_resp' = resp

\* where a call stands after an exception has passed a retry level
Outcome(p, r, an, sl) == [pc |-> p, result |-> r, attempt_number |-> an, idle_for |-> sl]
Finish(e) == Outcome("idle", e, attempt_number, idle_for)

\* the exception e leaves the outermost decorated function of a wrapper call
\* (fetch_system_logs, fetch_filestation_logs): its @retry decides
WrapRaise(e) ==
    LET d == RetryDecision(e.exc, attempt_number.wrap)
    IN  IF d = "retry"
        THEN Outcome("all_logs", NoResult,
                     [attempt_number EXCEPT !.wrap = @ + 1, !.all = 1, !.net = 1],
                     idle_for + WaitFixed)
        ELSE Finish(IF d = "RetryError" THEN RetryError(e) ELSE e)

\* the exception e leaves the body of fetch_all_logs: its @retry decides, then
\* the wrapper's if the call came through one
AllRaise(e) ==
    LET d == RetryDecision(e.exc, attempt_number.all)
        out == IF d = "RetryError" THEN RetryError(e) ELSE e
    IN  IF d = "retry"
        THEN Outcome("all_logs", NoResult,
                     [attempt_number EXCEPT !.all = @ + 1, !.net = 1],
                     idle_for + WaitFixed)
        ELSE IF op = "fetch_all_logs" THEN Finish(out) ELSE WrapRaise(out)

\* mutant of WrapCause: the wrapping exception is a requests.RequestException
WrapCauseAsRequestException(e) == Raise("RequestException", "fetch logs failed: " \o e.msg)

\* mutant of WrapCause: the message of the cause is left out
WrapCauseWithoutCause(e) == Raise("Exception", "fetch logs failed")

\* `except Exception as e: raise Exception(f"...: {str(e)}")` in fetch_all_logs
WrapCause(e) == Raise("Exception", "fetch logs failed: " \o e.msg)

\* the exception e leaves the body of a function whose @retry is the network
\* level (login, fetch_user_info, fetch_logs_page); inside fetch_all_logs what
\* leaves fetch_logs_page is caught and wrapped
NetRaise(e) ==
    LET d == RetryDecision(e.exc, attempt_number.net)
        out == IF d = "RetryError" THEN RetryError(e) ELSE e
    IN  IF d = "retry"
        THEN Outcome(pc, NoResult, [attempt_number EXCEPT !.net = @ + 1],
                     idle_for + WaitFixed)
        ELSE IF op \in {"login", "fetch_user_info", "fetch_logs_page"}
             THEN Finish(out)
             ELSE AllRaise(WrapCause(out))

Becomes(o) ==
    /\ pc' = o.pc
    /\ result' = o.result
    /\ attempt_number' = o.attempt_number
    /\ idle_for' = o.idle_for

(* -------------------------------- login ------------------------------- *)
\* mutant of LoginSid: the token of the response is not stored
LoginSidNotStored(old, tok) == old

\* self.sid after a response carrying data.sid
LoginSid(old, tok) == tok

\* `error_code in (400, 408, 409, 410) and clear_password_callback`
ClearsPassword(error_code, clear_password_callback) ==
    error_code \in {400, 408, 409, 410} /\ clear_password_callback

\* mutant of ClearsOtp: an `if` of its own that only asks for the callback
ClearsOtpOnAnyError(error_code, clear_password_callback, clear_otp_callback) ==
    clear_otp_callback

\* mutant of ClearsOtp: code 406 is left out of the tuple
ClearsOtpOnly404(error_code, clear_password_callback, clear_otp_callback) ==
    error_code = 404 /\ clear_otp_callback

\* the elif branch: `error_code in (404, 406) and clear_otp_callback`
ClearsOtp(error_code, clear_password_callback, clear_otp_callback) ==
    /\ ~ClearsPassword(error_code, clear_password_callback)
    /\ error_code \in {404, 406}
    /\ clear_otp_callback

LoginParams ==
    [api |-> "SYNO.API.Auth", method |-> "login", version |-> "7", format |-> "sid",
     otp_code |-> args.otp_code]

\* login(account, password, otp_code, clear_password_callback, clear_otp_callback)
Login(otp_code, clear_password_callback, clear_otp_callback) ==
    /\ Enter("login", [otp_code |-> otp_code,
                       clear_password_callback |-> clear_password_callback,
                       clear_otp_callback |-> clear_otp_callback])
    /\ pc' = "login"
    /\ result' = NoResult
    /\ page_reqs' = << >>
    /\ UNCHANGED <<sid, logged_out>>
    /\ UNCHANGED app_vars

\* the request fails at transport level (session.get, raise_for_status, json)
LoginTransportError(e) ==
    /\ pc = "login"
    /\ Get(LoginParams, TransportError(e))
    /\ Becomes(NetRaise(RequestException(e)))
    /\ UNCHANGED <<sid, logged_out, op, args, sid_before, locals, callbacks>>
    /\ UNCHANGED app_vars

\* the response carries data.sid
LoginOk(tok) ==
    /\ pc = "login"
    /\ Get(LoginParams, Json([data |-> [sid |-> tok]]))
    /\ sid' = LoginSid(sid, tok)
    /\ result' = Return(sid')
    /\ pc' = "idle"
    /\ logged_out' = FALSE
    /\ UNCHANGED <<op, args, sid_before, attempt_number, idle_for, locals, callbacks>>
    /\ UNCHANGED app_vars

\* the response carries no data.sid: error.code, or nothing at all
LoginError(error_code) ==
    /\ pc = "login"
    /\ Get(LoginParams, Json([error |-> [code |-> error_code]]))
    /\ cb_password' = cb_password +
          (IF ClearsPassword(error_code, args.clear_password_callback) THEN 1 ELSE 0)
    /\ cb_otp' = cb_otp +
          (IF ClearsOtp(error_code, args.clear_password_callback, args.clear_otp_callback)
           THEN 1 ELSE 0)
    /\ Becomes(NetRaise(Raise("Exception", get_error_message(error_code))))
    /\ UNCHANGED <<sid, logged_out, op, args, sid_before, locals>>
    /\ UNCHANGED app_vars

(* ------------------------------- logout ------------------------------- *)
\* mutant of LogoutSid: the token is kept whatever the server answers
LogoutSidNeverCleared(old, success) == old

\* mutant of LogoutSid: the token is dropped whatever the server answers
LogoutSidAlwaysCleared(old, success) == None

\* self.sid after the logout response: cleared iff data.get("success", False)
LogoutSid(old, success) == IF success THEN None ELSE old

LogoutParams ==
    [api |-> "SYNO.API.Auth", method |-> "logout", version |-> "7", _sid |-> sid]

\* logout(): returns True at once when there is no session
Logout ==
    /\ Enter("logout", << >>)
    /\ IF NotSid(sid)
       THEN pc' = "idle" /\ result' = Return(TRUE)
       ELSE pc' = "logout" /\ result' = NoResult
    /\ page_reqs' = << >>
    /\ UNCHANGED <<sid, logged_out>>
    /\ UNCHANGED app_vars

\* the server answers with a JSON body; there is no raise_for_status here
LogoutResponse(success) ==
    /\ pc = "logout"
    /\ Get(LogoutParams, Json([success |-> success]))
    /\ sid' = LogoutSid(sid, success)
    /\ result' = Return(success)
    /\ pc' = "idle"
    /\ logged_out' = (logged_out \/ success)
    /\ UNCHANGED <<op, args, sid_before, attempt_number, idle_for, locals, callbacks>>
    /\ UNCHANGED app_vars

\* mutant of LogoutTransportError: logout is retried like the decorated calls
LogoutTransportErrorRetried(e) ==
    /\ pc = "logout"
    /\ Get(LogoutParams, TransportError(e))
    /\ IF stop_after_attempt(attempt_number.net)
       THEN /\ result' = Raise("Exception", "logout failed: " \o e)
            /\ pc' = "idle"
            /\ UNCHANGED <<attempt_number, idle_for>>
       ELSE /\ attempt_number' = [attempt_number EXCEPT !.net = @ + 1]
            /\ idle_for' = idle_for + WaitFixed
            /\ UNCHANGED <<pc, result>>
    /\ UNCHANGED <<sid, logged_out, op, args, sid_before, locals, callbacks>>
    /\ UNCHANGED app_vars

\* mutant of LogoutTransportError: the token is dropped before the request
LogoutTransportErrorClearsSid(e) ==
    /\ pc = "logout"
    /\ Get(LogoutParams, TransportError(e))
    /\ sid' = None
    /\ result' = Raise("Exception", "logout failed: " \o e)
    /\ pc' = "idle"
    /\ UNCHANGED <<logged_out, op, args, sid_before, attempt_number, idle_for, locals, callbacks>>
    /\ UNCHANGED app_vars

\* requests.RequestException is caught and wrapped; logout has no @retry
LogoutTransportError(e) ==
    /\ pc = "logout"
    /\ Get(LogoutParams, TransportError(e))
    /\ result' = Raise("Exception", "logout failed: " \o e)
    /\ pc' = "idle"
    /\ UNCHANGED <<sid, logged_out, op, args, sid_before, attempt_number, idle_for, locals, callbacks>>
    /\ UNCHANGED app_vars

(* --------------------------- fetch_user_info -------------------------- *)
UserParams ==
    [api |-> "SYNO.Core.User", version |-> "1",
     method |-> IF args.username = None THEN "list" ELSE "get",
     name |-> args.username, additional |-> args.additional, _sid |-> sid]

UserPayloads == {"users-a", "users-b"}

\* fetch_user_info(username, additional)
FetchUserInfo(username, additional) ==
    /\ Enter("fetch_user_info", [username |-> username, additional |-> additional])
    /\ pc' = "user_info"
    /\ result' = NoResult
    /\ page_reqs' = << >>
    /\ UNCHANGED <<sid, logged_out>>
    /\ UNCHANGED app_vars

\* `if not self.sid: raise Exception(...)`, before any request
UserInfoNotLoggedIn ==
    /\ pc = "user_info"
    /\ NotSid(sid)
    /\ Becomes(NetRaise(Raise("Exception", "not logged in, call login first")))
    /\ UNCHANGED <<sid, logged_out, op, args, sid_before, net_count, last_req, last_resp, locals, callbacks>>
    /\ UNCHANGED app_vars

UserInfoTransportError(e) ==
    /\ pc = "user_info"
    /\ ~NotSid(sid)
    /\ Get(UserParams, TransportError(e))
    /\ Becomes(NetRaise(RequestException(e)))
    /\ UNCHANGED <<sid, logged_out, op, args, sid_before, locals, callbacks>>
    /\ UNCHANGED app_vars

\* a well-formed response: returned whole when data.get("success") is true
UserInfoResponse(success, payload) ==
    /\ pc = "user_info"
    /\ ~NotSid(sid)
    /\ Get(UserParams, Json([success |-> success, data |-> payload]))
    /\ IF success
       THEN Becomes(Finish(Return(last_resp'.body)))
       ELSE Becomes(NetRaise(Raise("Exception", "API returned failure")))
    /\ UNCHANGED <<sid, logged_out, op, args, sid_before, locals, callbacks>>
    /\ UNCHANGED app_vars

(* --------------------------- fetch_logs_page -------------------------- *)
\* the fetch_logs_page call the operation is in
page_call == page_reqs[Len(page_reqs)]

LogParams ==
    [api |-> "SYNO.Core.SyslogClient.Log", version |-> "1", method |-> "list",
     limit |-> page_call.limit, offset |-> page_call.offset,
     logtype |-> page_call.logtype, _sid |-> sid]

PageCall(logtype, lim, off) == [logtype |-> logtype, limit |-> lim, offset |-> off]

\* shapes of a response body whose success flag is true
Shapes == {"no data", "no items", "items"}
PageData(shape, items) ==
    [success |-> TRUE, shape |-> shape, items |-> IF shape = "items" THEN items ELSE << >>]

\* fetch_logs_page(logtype, limit, offset), called directly: no session check
FetchLogsPage(logtype, lim, off) ==
    /\ Enter("fetch_logs_page", [logtype |-> logtype, limit |-> lim, offset |-> off])
    /\ page_reqs' = <<PageCall(logtype, lim, off)>>
    /\ pc' = "page"
    /\ result' = NoResult
    /\ UNCHANGED <<sid, logged_out>>
    /\ UNCHANGED app_vars

(* ---------------------------- fetch_all_logs -------------------------- *)
\* mutant of Extend: the new page is put in front of the accumulated records
ExtendInFront(acc, items) == items \o acc

\* all_items.extend(items)
Extend(acc, items) == acc \o items

\* mutant of IsLastPage: an empty page ends the loop too
IsLastPageOrEmpty(items, lim) == Len(items) < lim \/ items = << >>

\* mutant of IsLastPage: a page of any size but limit ends the loop
IsLastPageUnlessFull(items, lim) == Len(items) # lim

\* mutant of IsLastPage: a page of exactly limit records ends the loop too
IsLastPageOrFull(items, lim) == Len(items) <= lim

\* `if len(items) < limit: break`
IsLastPage(items, lim) == Len(items) < lim

\* mutant of NextOffset: the offset advances by one record, not by one page
NextOffsetByOne(off, lim) == off + 1

\* `offset += limit`
NextOffset(off, lim) == off + lim

\* the dictionary fetch_all_logs returns
AllLogsData(items) == [success |-> TRUE, data |-> [items |-> items]]

\* fetch_all_logs(logtype, page_size)
FetchAllLogs(logtype, page_size) ==
    /\ Enter("fetch_all_logs", [logtype |-> logtype, page_size |-> page_size])
    /\ pc' = "all_logs"
    /\ result' = NoResult
    /\ page_reqs' = << >>
    /\ UNCHANGED <<sid, logged_out>>
    /\ UNCHANGED app_vars

\* fetch_system_logs(logtype="system", page_size)
FetchSystemLogs(page_size) ==
    /\ Enter("fetch_system_logs", [logtype |-> "system", page_size |-> page_size])
    /\ pc' = "all_logs"
    /\ result' = NoResult
    /\ page_reqs' = << >>
    /\ UNCHANGED <<sid, logged_out>>
    /\ UNCHANGED app_vars

\* fetch_filestation_logs(logtype="filestation", page_size)
FetchFilestationLogs(page_size) ==
    /\ Enter("fetch_filestation_logs", [logtype |-> "filestation", page_size |-> page_size])
    /\ pc' = "all_logs"
    /\ result' = NoResult
    /\ page_reqs' = << >>
    /\ UNCHANGED <<sid, logged_out>>
    /\ UNCHANGED app_vars

\* `if not self.sid: raise Exception(...)`, before the loop
AllLogsNotLoggedIn ==
    /\ pc = "all_logs"
    /\ NotSid(sid)
    /\ Becomes(AllRaise(Raise("Exception", "not logged in")))
    /\ UNCHANGED <<sid, logged_out, op, args, sid_before, net_count, last_req, last_resp, locals, callbacks>>
    /\ UNCHANGED app_vars

\* all_items = [], offset = 0, limit = page_size, and the first fetch_logs_page call
AllLogsStart ==
    /\ pc = "all_logs"
    /\ ~NotSid(sid)
    /\ all_items' = << >>
    /\ offset' = 0
    /\ limit' = args.page_size
    /\ page_reqs' = Append(page_reqs, PageCall(args.logtype, limit', offset'))
    /\ pc' = "page"
    /\ attempt_number' = [attempt_number EXCEPT !.net = 1]
    /\ idle_for' = 0
    /\ net_count' = 0
    /\ UNCHANGED <<sid, logged_out, op, args, sid_before, result, pages, last_req, last_resp,
                   callbacks>>
    /\ UNCHANGED app_vars

(* ----------------------- one page request attempt --------------------- *)
\* the model follows MaxPages fetch_logs_page calls of one operation
Followed == Len(page_reqs) <= MaxPages

\* session.get, raise_for_status or response.json raises
PageTransportError(e) ==
    /\ pc = "page"
    /\ Followed
    /\ Get(LogParams, TransportError(e))
    /\ Becomes(NetRaise(RequestException(e)))
    /\ UNCHANGED <<sid, logged_out, op, args, sid_before, locals, callbacks>>
    /\ UNCHANGED app_vars

\* a well-formed response with a false success flag
PageFailure ==
    /\ pc = "page"
    /\ Followed
    /\ Get(LogParams, Json([success |-> FALSE]))
    /\ Becomes(NetRaise(Raise("Exception", "API returned failure")))
    /\ UNCHANGED <<sid, logged_out, op, args, sid_before, locals, callbacks>>
    /\ UNCHANGED app_vars

\* a well-formed response with a true success flag, returned by fetch_logs_page
\* called directly
PageReturned(shape, items) ==
    /\ pc = "page"
    /\ op = "fetch_logs_page"
    /\ Followed
    /\ items \in PageItems(page_call.limit)
    /\ Get(LogParams, Json(PageData(shape, items)))
    /\ Becomes(Finish(Return(last_resp'.body)))
    /\ UNCHANGED <<sid, logged_out, op, args, sid_before, locals, callbacks>>
    /\ UNCHANGED app_vars

\* mutant of PageInvalid: the records fetched so far are returned as the result
PageInvalidReturnsPartial(shape) ==
    /\ pc = "page"
    /\ op # "fetch_logs_page"
    /\ shape # "items"
    /\ Followed
    /\ Get(LogParams, Json(PageData(shape, << >>)))
    /\ Becomes(Finish(Return(AllLogsData(all_items))))
    /\ UNCHANGED <<sid, logged_out, op, args, sid_before, locals, callbacks>>
    /\ UNCHANGED app_vars

\* inside fetch_all_logs: the response lacks "data" or "items"
PageInvalid(shape) ==
    /\ pc = "page"
    /\ op # "fetch_logs_page"
    /\ shape # "items"
    /\ Followed
    /\ Get(LogParams, Json(PageData(shape, << >>)))
    /\ Becomes(AllRaise(WrapCause(Raise("Exception", "invalid log data, missing data or items"))))
    /\ UNCHANGED <<sid, logged_out, op, args, sid_before, locals, callbacks>>
    /\ UNCHANGED app_vars

\* inside fetch_all_logs: one pass of the loop body over a page of items
PageItemsReceived(items) ==
    /\ pc = "page"
    /\ op # "fetch_logs_page"
    /\ Followed
    /\ items \in PageItems(limit)
    /\ last_req' = LogParams
    /\ last_resp' = Json(PageData("items", items))
    /\ pages' = Append(pages, items)
    /\ all_items' = Extend(all_items, items)
    /\ limit' = limit
    /\ IF IsLastPage(items, limit)
       THEN /\ Becomes(Finish(Return(AllLogsData(all_items'))))
            /\ net_count' = net_count + 1
            /\ UNCHANGED <<offset, page_reqs>>
       ELSE /\ offset' = NextOffset(offset, limit)
            /\ page_reqs' = Append(page_reqs, PageCall(args.logtype, limit, offset'))
            /\ attempt_number' = [attempt_number EXCEPT !.net = 1]
            /\ idle_for' = 0
            /\ net_count' = 0
            /\ UNCHANGED <<pc, result>>
    /\ UNCHANGED <<sid, logged_out, op, args, sid_before, callbacks>>
    /\ UNCHANGED app_vars

(* ------------------------------ behaviour ----------------------------- *)
Next ==
    \/ \E o \in {None, "123456"}, p \in BOOLEAN, q \in BOOLEAN : Login(o, p, q)
    \/ \E e \in TransportErrors : LoginTransportError(e)
    \/ \E t \in Tokens : LoginOk(t)
    \/ \E c \in Codes : LoginError(c)
    \/ Logout
    \/ \E b \in BOOLEAN : LogoutResponse(b)
    \/ \E e \in TransportErrors : LogoutTransportError(e)
    \/ \E u \in {None, "alice"}, a \in BOOLEAN : FetchUserInfo(u, a)
    \/ UserInfoNotLoggedIn
    \/ \E e \in TransportErrors : UserInfoTransportError(e)
    \/ \E b \in BOOLEAN, u \in UserPayloads : UserInfoResponse(b, u)
    \/ \E t \in LogTypes, l \in PageSizes, f \in Offsets : FetchLogsPage(t, l, f)
    \/ \E t \in LogTypes, l \in PageSizes : FetchAllLogs(t, l)
    \/ \E l \in PageSizes : FetchSystemLogs(l)
    \/ \E l \in PageSizes : FetchFilestationLogs(l)
    \/ AllLogsNotLoggedIn
    \/ AllLogsStart
    \/ \E e \in TransportErrors : PageTransportError(e)
    \/ PageFailure
    \/ \E s \in Shapes, i \in AnyItems : PageReturned(s, i)
    \/ \E s \in Shapes : PageInvalid(s)
    \/ \E i \in AnyItems : PageItemsReceived(i)

Spec == Init /\ [][Next]_vars

(* ------------------------------------------------------------------------ *)
(* The export buffers: System_Log and FilesStation_Log                      *)
(* ------------------------------------------------------------------------ *)
Classes == {"System_Log", "FilesStation_Log"}
\* Ranking_Log (src/module/ranking_log.py) is the third class of buffers
AllClasses == Classes \cup {"Ranking_Log"}

PRIORITY_MAPPING ==
    [level \in {"info", "warn", "error"} |->
        CASE level = "info" -> "Information"
          [] level = "warn" -> "Warning"
          [] level = "error" -> "Error"]

EVENT_MAPPING ==
    [cmd \in {"upload", "download", "delete", "rename", "move", "copy",
              "create folder", "extract", "compress", "property set"} |->
        CASE cmd = "upload" -> "Upload"
          [] cmd = "download" -> "Download"
          [] cmd = "delete" -> "Delete"
          [] cmd = "rename" -> "Rename"
          [] cmd = "move" -> "Move"
          [] cmd = "copy" -> "Copy"
          [] cmd = "create folder" -> "Create folder"
          [] cmd = "extract" -> "Extract"
          [] cmd = "compress" -> "Compress"
          [] cmd = "property set" -> "Set properties"]

\* the fallback label of both mappings
UnknownEvent == "Unknown event"

SYSTEM_COLUMNS == <<"priority", "log", "time", "user", "event">>
FILESTATION_COLUMNS ==
    <<"log", "time", "ip", "user", "event", "kind", "filesize", "filename">>

\* str.lower() on the strings of the model that are not lower case already
lower(s) ==
    CASE s = "True" -> "true"
      [] s = "False" -> "false"
      [] s = "None" -> "none"
      [] s = "N/A" -> "n/a"
      [] s = "TRUE" -> "true"
      [] s = "INFO" -> "info"
      [] s = "Info" -> "info"
      [] s = "WARN" -> "warn"
      [] s = "Warn" -> "warn"
      [] s = "ERROR" -> "error"
      [] s = "Error" -> "error"
      [] s = "UPLOAD" -> "upload"
      [] s = "Upload" -> "upload"
      [] s = "DOWNLOAD" -> "download"
      [] s = "Download" -> "download"
      [] s = "DELETE" -> "delete"
      [] s = "Delete" -> "delete"
      [] s = "RENAME" -> "rename"
      [] s = "Rename" -> "rename"
      [] s = "MOVE" -> "move"
      [] s = "Move" -> "move"
      [] s = "COPY" -> "copy"
      [] s = "Copy" -> "copy"
      [] s = "CREATE FOLDER" -> "create folder"
      [] s = "Create Folder" -> "create folder"
      [] s = "EXTRACT" -> "extract"
      [] s = "Extract" -> "extract"
      [] s = "COMPRESS" -> "compress"
      [] s = "Compress" -> "compress"
      [] s = "PROPERTY SET" -> "property set"
      [] s = "Property Set" -> "property set"
      [] OTHER -> s

\* the spellings of a key the model passes to the mappings
Spelled(key) ==
    CASE key = "info" -> {"info", "INFO", "Info"}
      [] key = "warn" -> {"warn", "WARN", "Warn"}
      [] key = "error" -> {"error", "ERROR", "Error"}
      [] key = "upload" -> {"upload", "UPLOAD", "Upload"}
      [] key = "download" -> {"download", "DOWNLOAD", "Download"}
      [] key = "delete" -> {"delete", "DELETE", "Delete"}
      [] key = "rename" -> {"rename", "RENAME", "Rename"}
      [] key = "move" -> {"move", "MOVE", "Move"}
      [] key = "copy" -> {"copy", "COPY", "Copy"}
      [] key = "create folder" -> {"create folder", "CREATE FOLDER", "Create Folder"}
      [] key = "extract" -> {"extract", "EXTRACT", "Extract"}
      [] key = "compress" -> {"compress", "COMPRESS", "Compress"}
      [] key = "property set" -> {"property set", "PROPERTY SET", "Property Set"}

\* levels and verbs a raw record may carry: every spelling of every key and
\* some the mappings do not know
LevelInputs ==
    UNION {Spelled(k) : k \in {"info", "warn", "error"}} \cup {"debug", "N/A", "", "warning"}
CmdInputs ==
    UNION {Spelled(k) : k \in {"upload", "download", "delete", "rename", "move", "copy",
                               "create folder", "extract", "compress", "property set"}}
        \cup {"chmod", "N/A", "", "uploads"}

\* str() on a field value: a string, or None
str(v) == IF v = None THEN "None" ELSE v

\* dict.get(key, default)
get(d, key, default) == IF key \in DOMAIN d THEN d[key] ELSE default

\* AttributeError of None.lower()
NoLower == "'NoneType' object has no attribute 'lower'"

\* mutant of map_priority: the level is looked up as it is spelled
map_priority_as_spelled(level) == get(PRIORITY_MAPPING, level, UnknownEvent)

map_priority(level) == get(PRIORITY_MAPPING, lower(level), UnknownEvent)
map_event(cmd) == get(EVENT_MAPPING, lower(cmd), UnknownEvent)

\* raw system records a fetch may hand over: complete ones, one with an
\* unknown level, two with missing fields, one whose level is null
SystemRaw ==
    { [level |-> "info", time |-> "t1", who |-> "alice", descr |-> "d1"],
      [level |-> "WARN", time |-> "t2", who |-> "bob", descr |-> "d2"],
      [level |-> "debug", time |-> "t1", who |-> "bob", descr |-> "d1"],
      [time |-> "t1", descr |-> "d1"],
      [level |-> "info", time |-> "t1", who |-> "alice"],
      [level |-> None, time |-> "t1", who |-> "alice", descr |-> "d1"] }

\* raw file-station records: a complete one, two with missing fields, one
\* without cmd whose isdir is in upper case, one whose cmd is null
FilestationRaw ==
    { [time |-> "t1", ip |-> "10.0.0.1", username |-> "alice", cmd |-> "upload",
       isdir |-> "false", filesize |-> "1 KB", descr |-> "/a.txt"],
      [cmd |-> "Delete", isdir |-> "True", username |-> "bob"],
      [cmd |-> "chmod", descr |-> "/b"],
      [isdir |-> "TRUE", time |-> "t2"],
      [cmd |-> None, time |-> "t2"] }

required_keys == <<"level", "time", "who", "descr">>

\* what a call leaves behind
Left(buf, file, res, n) ==
    [logs |-> buf, log_file |-> file, result |-> res, to_excel_calls |-> n]

\* mutant of system_add_log: the record goes to the front of the buffer
system_add_log_prepends(buf, file, log) ==
    LET missing == {i \in DOMAIN required_keys : required_keys[i] \notin DOMAIN log}
        first == CHOOSE i \in missing : \A j \in missing : i <= j
    IN  IF missing # {}
        THEN Left(buf, file,
                  Raise("Exception",
                        "add log failed: 'missing item: " \o required_keys[first] \o "'"), 0)
        ELSE IF log.level = None
        THEN Left(buf, file, Raise("Exception", "add log failed: " \o NoLower), 0)
        ELSE Left(<<[priority |-> map_priority(log.level),
                     log |-> "System",
                     time |-> log.time,
                     user |-> log.who,
                     event |-> log.descr]>> \o buf,
                  file, Return(None), 0)

\* mutant of system_add_log: the error names the last missing field
system_add_log_names_last(buf, file, log) ==
    LET missing == {i \in DOMAIN required_keys : required_keys[i] \notin DOMAIN log}
        last == CHOOSE i \in missing : \A j \in missing : i >= j
    IN  IF missing # {}
        THEN Left(buf, file,
                  Raise("Exception",
                        "add log failed: 'missing item: " \o required_keys[last] \o "'"), 0)
        ELSE IF log.level = None
        THEN Left(buf, file, Raise("Exception", "add log failed: " \o NoLower), 0)
        ELSE Left(Append(buf, [priority |-> map_priority(log.level),
                               log |-> "System",
                               time |-> log.time,
                               user |-> log.who,
                               event |-> log.descr]),
                  file, Return(None), 0)

\* System_Log.add_log(log)
system_add_log(buf, file, log) ==
    LET missing == {i \in DOMAIN required_keys : required_keys[i] \notin DOMAIN log}
        first == CHOOSE i \in missing : \A j \in missing : i <= j
    IN  IF missing # {}
        THEN Left(buf, file,
                  Raise("Exception",
                        "add log failed: 'missing item: " \o required_keys[first] \o "'"), 0)
        ELSE IF log.level = None
        THEN Left(buf, file, Raise("Exception", "add log failed: " \o NoLower), 0)
        ELSE Left(Append(buf, [priority |-> map_priority(log.level),
                               log |-> "System",
                               time |-> log.time,
                               user |-> log.who,
                               event |-> log.descr]),
                  file, Return(None), 0)

\* mutant of filestation_add_log: the fields are read with log[...], so that a
\* record lacking one of them is refused
filestation_add_log_requires_fields(buf, file, log) ==
    LET isdir == lower(str(get(log, "isdir", "False"))) = "true"
        cmd == get(log, "cmd", "N/A")
        lacking == {"time", "ip", "username", "cmd", "filesize", "descr"} \ DOMAIN log
    IN  IF lacking # {}
        THEN Left(buf, file, Raise("Exception", "add log failed: missing field"), 0)
        ELSE IF cmd = None
        THEN Left(buf, file, Raise("Exception", "add log failed: " \o NoLower), 0)
        ELSE Left(Append(buf, [log |-> "FileStation",
                               time |-> log.time,
                               ip |-> log.ip,
                               user |-> log.username,
                               event |-> map_event(cmd),
                               kind |-> IF isdir THEN "Folder" ELSE "File",
                               filesize |-> log.filesize,
                               filename |-> log.descr]),
                  file, Return(None), 0)

\* FilesStation_Log.add_log(log)
filestation_add_log(buf, file, log) ==
    LET isdir == lower(str(get(log, "isdir", "False"))) = "true"
        cmd == get(log, "cmd", "N/A")
    IN  IF cmd = None
        THEN Left(buf, file, Raise("Exception", "add log failed: " \o NoLower), 0)
        ELSE Left(Append(buf, [log |-> "FileStation",
                               time |-> get(log, "time", "N/A"),
                               ip |-> get(log, "ip", "N/A"),
                               user |-> get(log, "username", "N/A"),
                               event |-> map_event(cmd),
                               kind |-> IF isdir THEN "Folder" ELSE "File",
                               filesize |-> get(log, "filesize", "N/A"),
                               filename |-> get(log, "descr", "N/A")]),
                  file, Return(None), 0)

\* pd.DataFrame(self.logs, columns=...).to_excel(self.log_file, index=False)
Workbook(columns, rows) == [state |-> "written", header |-> columns, rows |-> rows]

\* a write that failed midway may leave an unreadable file
Damaged == [state |-> "damaged", header |-> << >>, rows |-> << >>]

\* how df.to_excel can end: written, or an error that leaves the file as it
\* was or damaged
ToExcel(file) ==
    {[ok |-> TRUE, error |-> "", leaves |-> file]}
        \cup {[ok |-> FALSE, error |-> "PermissionError", leaves |-> f] : f \in {file, Damaged}}

Columns(class) ==
    IF class = "System_Log" THEN SYSTEM_COLUMNS ELSE FILESTATION_COLUMNS

\* mutant of save_to_file: the buffer is not cleared after the write
save_to_file_keeps_logs(class, buf, file, excel) ==
    IF buf = << >>
    THEN Left(buf, file, Return(FALSE), 0)
    ELSE IF excel.ok
    THEN Left(buf, Workbook(Columns(class), buf), Return(TRUE), 1)
    ELSE Left(buf, excel.leaves, Raise("Exception", "save log failed: " \o excel.error), 1)

\* save_to_file(), the same code in both classes but for the columns
save_to_file(class, buf, file, excel) ==
    IF buf = << >>
    THEN Left(buf, file, Return(FALSE), 0)
    ELSE IF excel.ok
    THEN Left(<< >>, Workbook(Columns(class), buf), Return(TRUE), 1)
    ELSE Left(buf, excel.leaves, Raise("Exception", "save log failed: " \o excel.error), 1)

RANKING_COLUMNS == <<"rank", "user", "count", "name", "email">>

\* the three sheets of save_to_excel, in the order of its loop
RankingSheets == <<"upload", "download", "delete">>

\* add_log arguments populate_rankings may pass
RankingRaw ==
    { [ranking_type |-> "upload", rank |-> 1, username |-> "alice", count |-> 2,
       name |-> "Alice", email |-> "alice@nas"],
      [ranking_type |-> "download", rank |-> 1, username |-> "bob", count |-> 1,
       name |-> "", email |-> ""],
      [ranking_type |-> "delete", rank |-> 2, username |-> "alice", count |-> 1,
       name |-> "Alice", email |-> "alice@nas"] }

\* Ranking_Log.add_log(ranking_type, rank, username, count, name, email)
ranking_add_log(buf, file, a) ==
    Left(Append(buf, [rank |-> ToString(a.rank),
                      user |-> a.username,
                      count |-> ToString(a.count),
                      name |-> a.name,
                      email |-> a.email,
                      type |-> a.ranking_type]),
         file, Return(None), 0)

\* df[df[type] == ranking_type][RANKING_COLUMNS]
TypeRows(buf, ranking_type) ==
    LET rows == SelectSeq(buf, LAMBDA r : r.type = ranking_type)
    IN  [i \in DOMAIN rows |->
            [rank |-> rows[i].rank, user |-> rows[i].user, count |-> rows[i].count,
             name |-> rows[i].name, email |-> rows[i].email]]

\* mutant of Sheets: a sheet is made for every type, with or without rows
SheetsForEveryType(buf) ==
    [i \in DOMAIN RankingSheets |->
        [name |-> RankingSheets[i], header |-> RANKING_COLUMNS,
         rows |-> TypeRows(buf, RankingSheets[i])]]

\* the sheets the loop creates: one per type that has rows, the others skipped
Sheets(buf) ==
    LET made == SelectSeq(RankingSheets, LAMBDA t : TypeRows(buf, t) # << >>)
    IN  [i \in DOMAIN made |->
            [name |-> made[i], header |-> RANKING_COLUMNS, rows |-> TypeRows(buf, made[i])]]

RankingWorkbook(sheets) == [state |-> "written", sheets |-> sheets]

\* openpyxl refuses to save a workbook without a sheet
NoSheet == "At least one sheet must be visible"

\* mutant of save_to_excel: the buffer is cleared before the workbook is saved
save_to_excel_clears_first(buf, file, excel) ==
    IF buf = << >>
    THEN Left(buf, file, Return(FALSE), 0)
    ELSE IF Sheets(buf) = << >>
    THEN Left(<< >>, file, Raise("Exception", "save ranking log failed: " \o NoSheet), 1)
    ELSE IF excel.ok
    THEN Left(<< >>, RankingWorkbook(Sheets(buf)), Return(TRUE), 1)
    ELSE Left(<< >>, excel.leaves,
              Raise("Exception", "save ranking log failed: " \o excel.error), 1)

\* Ranking_Log.save_to_excel(); to_excel_calls counts workbook.save here
save_to_excel(buf, file, excel) ==
    IF buf = << >>
    THEN Left(buf, file, Return(FALSE), 0)
    ELSE IF Sheets(buf) = << >>
    THEN Left(buf, file, Raise("Exception", "save ranking log failed: " \o NoSheet), 1)
    ELSE IF excel.ok
    THEN Left(<< >>, RankingWorkbook(Sheets(buf)), Return(TRUE), 1)
    ELSE Left(buf, excel.leaves,
              Raise("Exception", "save ranking log failed: " \o excel.error), 1)

\* how the write of a flush ended: not attempted on an empty buffer
WriteOutcome(buf, excel) ==
    IF buf = << >> THEN "none" ELSE IF excel.ok THEN "written" ELSE "failed"

\* the call ends and leaves l behind
LogCall(call, l) ==
    /\ log_call' = call
    /\ logs' = l.logs
    /\ log_file' = l.log_file
    /\ log_result' = l.result
    /\ to_excel_calls' = l.to_excel_calls
    /\ UNCHANGED <<log_class, filtered_logs, current_page, win_call>>

client_vars == <<sid, pc, op, args, result, attempt_number, idle_for, all_items, offset,
                 limit, page_reqs, pages, net_count, last_req, last_resp, logged_out,
                 cb_password, cb_otp, sid_before>>

\* the model follows a buffer up to MaxLogs records
Buffered == Len(logs) < MaxLogs

\* self.add_log(log) on a System_Log
SystemAddLog(log) ==
    /\ log_class = "System_Log"
    /\ Buffered
    /\ LogCall([name |-> "add_log", log |-> log], system_add_log(logs, log_file, log))
    /\ UNCHANGED client_vars

\* self.add_log(log) on a FilesStation_Log
FilestationAddLog(log) ==
    /\ log_class = "FilesStation_Log"
    /\ Buffered
    /\ LogCall([name |-> "add_log", log |-> log], filestation_add_log(logs, log_file, log))
    /\ UNCHANGED client_vars

\* self.save_to_file() on either class
SaveToFile(excel) ==
    /\ log_class \in Classes
    /\ LogCall([name |-> "save_to_file", write |-> WriteOutcome(logs, excel)],
               save_to_file(log_class, logs, log_file, excel))
    /\ UNCHANGED client_vars

\* self.map_priority(level) on a System_Log
MapPriority(level) ==
    /\ log_class = "System_Log"
    /\ LogCall([name |-> "map_priority", code |-> level],
               Left(logs, log_file, Return(map_priority(level)), 0))
    /\ UNCHANGED client_vars

\* self.map_event(cmd) on a FilesStation_Log
MapEvent(cmd) ==
    /\ log_class = "FilesStation_Log"
    /\ LogCall([name |-> "map_event", code |-> cmd],
               Left(logs, log_file, Return(map_event(cmd)), 0))
    /\ UNCHANGED client_vars

\* self.add_log(...) on a Ranking_Log
RankingAddLog(a) ==
    /\ log_class = "Ranking_Log"
    /\ Buffered
    /\ LogCall([name |-> "add_log", log |-> a], ranking_add_log(logs, log_file, a))
    /\ UNCHANGED client_vars

\* self.save_to_excel() on a Ranking_Log
SaveToExcel(excel) ==
    /\ log_class = "Ranking_Log"
    /\ LogCall([name |-> "save_to_excel", write |-> WriteOutcome(logs, excel)],
               save_to_excel(logs, log_file, excel))
    /\ UNCHANGED client_vars

\* System_Log(), FilesStation_Log() or Ranking_Log(): an empty buffer and a
\* fresh path
LogInit ==
    /\ ClientInit
    /\ log_class \in AllClasses
    /\ logs = << >>
    /\ log_file = NoFile
    /\ log_call = [name |-> "__init__"]
    /\ log_result = NoResult
    /\ to_excel_calls = 0
    /\ filtered_logs = << >>
    /\ current_page = 1
    /\ win_call = [name |-> "none"]

LogNext ==
    \/ \E log \in SystemRaw : SystemAddLog(log)
    \/ \E log \in FilestationRaw : FilestationAddLog(log)
    \/ \E excel \in ToExcel(log_file) : SaveToFile(excel)
    \/ \E a \in RankingRaw : RankingAddLog(a)
    \/ \E level \in LevelInputs : MapPriority(level)
    \/ \E cmd \in CmdInputs : MapEvent(cmd)
    \/ \E excel \in ToExcel(log_file) : SaveToExcel(excel)

LogSpec == LogInit /\ [][LogNext]_vars

(* ------------------------------------------------------------------------ *)
(* LogWindow (src/module/main.py): the search button on one tab.  The tab   *)
(* followed is the one of the aggregator log_class: System_Log for the      *)
(* system tab, FilesStation_Log for the file-station tab.                   *)
(* ------------------------------------------------------------------------ *)
\* Python None where a date is expected
NoDate == 0

\* pd.to_datetime(time_str).date() on the time strings of the model, None for
\* an empty, null or unparseable one
format_date(time_str) ==
    CASE time_str = "2024/01/01 08:00:00" -> 20240101
      [] time_str = "2024/01/02 23:59:59" -> 20240102
      [] time_str = "2024/01/03 00:00:00" -> 20240103
      [] OTHER -> NoDate

validate_date(date_text) == date_text \in {"2024-01-01", "2024-01-02", "2024-01-03"}

\* datetime.strptime(text, "%Y-%m-%d").date() if text else None
strptime_date(date_text) ==
    CASE date_text = "2024-01-01" -> 20240101
      [] date_text = "2024-01-02" -> 20240102
      [] date_text = "2024-01-03" -> 20240103
      [] OTHER -> NoDate

\* items fetch_system_logs may bring: two good records, one whose time is
\* empty, one without a time, one without who
SystemItems ==
    { [level |-> "info", time |-> "2024/01/01 08:00:00", who |-> "alice", descr |-> "d1"],
      [level |-> "WARN", time |-> "2024/01/03 00:00:00", who |-> "bob", descr |-> "d2"],
      [level |-> "error", time |-> "", who |-> "bob", descr |-> "d3"],
      [level |-> "info", who |-> "alice", descr |-> "d4"],
      [level |-> "info", time |-> "2024/01/02 23:59:59", descr |-> "d5"] }

\* items fetch_filestation_logs may bring: two good records, one whose time is
\* null, one whose time does not parse, one without ip
FilestationItems ==
    { [time |-> "2024/01/01 08:00:00", ip |-> "10.0.0.1", username |-> "alice",
       cmd |-> "upload", isdir |-> "false", filesize |-> "1 KB", descr |-> "/a.txt"],
      [time |-> "2024/01/03 00:00:00", ip |-> "10.0.0.2", username |-> "bob",
       cmd |-> "Delete", isdir |-> "True", filesize |-> "", descr |-> "/b"],
      [time |-> None, ip |-> "10.0.0.2", username |-> "bob",
       cmd |-> "upload", isdir |-> "false", filesize |-> "2 KB", descr |-> "/c"],
      [time |-> "yesterday", ip |-> "10.0.0.1", username |-> "alice",
       cmd |-> "download", isdir |-> "false", filesize |-> "3 KB", descr |-> "/d"],
      [time |-> "2024/01/02 23:59:59", username |-> "alice",
       cmd |-> "upload", isdir |-> "false", filesize |-> "1 KB", descr |-> "/e"] }

\* what the date edits and the combo box of a tab hold when the search button
\* is clicked: nothing, a range, a lone start, a lone end, a selection with and
\* without a range, text that is no date, a start after the end
Filter(start_date_text, end_date_text, selected) ==
    [start_date_text |-> start_date_text, end_date_text |-> end_date_text,
     selected |-> selected]
Filters(selection) ==
    { Filter("", "", None),
      Filter("2024-01-01", "2024-01-02", None),
      Filter("2024-01-02", "", None),
      Filter("", "2024-01-02", None),
      Filter("", "", selection),
      Filter("2024-01-01", "2024-01-02", selection),
      Filter("2024-13-01", "", None),
      Filter("2024-01-03", "2024-01-02", None) }

RECURSIVE Batches(_, _)
\* the item lists of length <= n a fetch may return
Batches(items, n) ==
    IF n <= 0 THEN {<< >>}
    ELSE LET shorter == Batches(items, n - 1)
         IN  shorter \cup {Append(b, i) : b \in {c \in shorter : Len(c) = n - 1}, i \in items}

\* what nas_client.fetch_system_logs() / fetch_filestation_logs() gave back,
\* or that it was not called
Fetched(items) == [called |-> TRUE, raised |-> FALSE, error |-> "", items |-> items]
FetchRaised(msg) == [called |-> TRUE, raised |-> TRUE, error |-> msg, items |-> << >>]
NotFetched == [called |-> FALSE, raised |-> FALSE, error |-> "", items |-> << >>]

\* where a search stands: the buffer, the filtered list, the exception that
\* cut it short ("" for none), the last aggregator call and its result
Search(buf, filtered, error, call, res) ==
    [logs |-> buf, filtered |-> filtered, error |-> error, call |-> call, result |-> res]

\* mutant of date_match: each bound that is set is applied by itself
date_match_each_bound(start_date, end_date, log_time) ==
    /\ (start_date = NoDate \/ start_date <= log_time)
    /\ (end_date = NoDate \/ log_time <= end_date)

\* (not start_date or not end_date) or (start_date <= log_time <= end_date)
date_match(start_date, end_date, log_time) ==
    \/ start_date = NoDate
    \/ end_date = NoDate
    \/ (start_date <= log_time /\ log_time <= end_date)

\* str(KeyError(key))
KeyError(key) == "'" \o key \o "'"

\* the first of these keys that the record lacks, "" when it has them all
FirstLacking(log, keys) ==
    LET lacking == {i \in DOMAIN keys : keys[i] \notin DOMAIN log}
    IN  IF lacking = {} THEN ""
        ELSE keys[CHOOSE i \in lacking : \A j \in lacking : i <= j]

\* one turn of the loop of the system section
SystemRow(s, log, start_date, end_date, selected_priority) ==
    LET log_time == format_date(get(log, "time", ""))
        level == get(log, "level", "N/A")
    IN  IF log_time = NoDate THEN s
        ELSE IF level = None THEN [s EXCEPT !.error = NoLower]
        ELSE LET priority == map_priority(level)
                 priority_match == selected_priority = None \/ priority = selected_priority
                 added == system_add_log(s.logs, NoFile, log)
                 call == [name |-> "add_log", log |-> log]
             IN  IF ~(date_match(start_date, end_date, log_time) /\ priority_match) THEN s
                 ELSE IF added.result.kind = "raise"
                 THEN Search(s.logs, s.filtered, added.result.msg, call, added.result)
                 ELSE Search(added.logs,
                             Append(s.filtered, [priority |-> priority,
                                                 log |-> "System",
                                                 time |-> log.time,
                                                 user |-> log.who,
                                                 event |-> log.descr]),
                             "", call, added.result)

\* the keys the file-station section reads with log[...], in the order read
FilestationRead == <<"time", "ip", "username", "isdir", "filesize", "descr">>

\* mutant of FilestationRow: a record whose time does not parse ends the search
FilestationRowStopsAtBadTime(s, log, start_date, end_date, selected_event) ==
    LET log_time == format_date(get(log, "time", ""))
        cmd == get(log, "cmd", "N/A")
    IN  IF log_time = NoDate THEN [s EXCEPT !.error = "time"]
        ELSE IF cmd = None THEN [s EXCEPT !.error = NoLower]
        ELSE LET event == map_event(cmd)
                 event_match == selected_event = None \/ event = selected_event
                 added == filestation_add_log(s.logs, NoFile, log)
                 call == [name |-> "add_log", log |-> log]
                 lacking == FirstLacking(log, FilestationRead)
             IN  IF ~(date_match(start_date, end_date, log_time) /\ event_match) THEN s
                 ELSE IF added.result.kind = "raise"
                 THEN Search(s.logs, s.filtered, added.result.msg, call, added.result)
                 ELSE IF lacking # ""
                 THEN Search(added.logs, s.filtered, KeyError(lacking), call, added.result)
                 ELSE Search(added.logs,
                             Append(s.filtered,
                                    [log |-> "FileStation",
                                     time |-> log.time,
                                     ip |-> log.ip,
                                     user |-> log.username,
                                     event |-> event,
                                     kind |-> IF lower(str(log.isdir)) = "true"
                                              THEN "Folder" ELSE "File",
                                     filesize |-> log.filesize,
                                     filename |-> log.descr]),
                             "", call, added.result)

\* one turn of the loop of the file-station section
FilestationRow(s, log, start_date, end_date, selected_event) ==
    LET log_time == format_date(get(log, "time", ""))
        cmd == get(log, "cmd", "N/A")
    IN  IF log_time = NoDate THEN s
        ELSE IF cmd = None THEN [s EXCEPT !.error = NoLower]
        ELSE LET event == map_event(cmd)
                 event_match == selected_event = None \/ event = selected_event
                 added == filestation_add_log(s.logs, NoFile, log)
                 call == [name |-> "add_log", log |-> log]
                 lacking == FirstLacking(log, FilestationRead)
             IN  IF ~(date_match(start_date, end_date, log_time) /\ event_match) THEN s
                 ELSE IF added.result.kind = "raise"
                 THEN Search(s.logs, s.filtered, added.result.msg, call, added.result)
                 ELSE IF lacking # ""
                 THEN Search(added.logs, s.filtered, KeyError(lacking), call, added.result)
                 ELSE Search(added.logs,
                             Append(s.filtered,
                                    [log |-> "FileStation",
                                     time |-> log.time,
                                     ip |-> log.ip,
                                     user |-> log.username,
                                     event |-> event,
                                     kind |-> IF lower(str(log.isdir)) = "true"
                                              THEN "Folder" ELSE "File",
                                     filesize |-> log.filesize,
                                     filename |-> log.descr]),
                             "", call, added.result)

RECURSIVE Section(_, _, _, _, _, _)
\* `for log in ..._logs:` of the system or the file-station section, left at
\* the first exception; the turns over a list are the turns over its first
\* half followed by the turns over its second half
Section(class, s, items, start_date, end_date, selected) ==
    IF items = << >> \/ s.error # "" THEN s
    ELSE IF Len(items) = 1
    THEN IF class = "System_Log"
         THEN SystemRow(s, Head(items), start_date, end_date, selected)
         ELSE FilestationRow(s, Head(items), start_date, end_date, selected)
    ELSE LET half == Len(items) \div 2
             first == Section(class, s, SubSeq(items, 1, half),
                              start_date, end_date, selected)
         IN  Section(class, first, SubSeq(items, half + 1, Len(items)),
                     start_date, end_date, selected)

\* the message boxes of fetch_logs
BadStartDate == "invalid start date"
BadEndDate == "invalid end date"
StartAfterEnd == "the start date cannot be later than the end date"

\* the warning fetch_logs shows before it fetches anything, "" when the date
\* edits pass
DateWarning(start_date_text, end_date_text) ==
    LET start_date == strptime_date(start_date_text)
        end_date == strptime_date(end_date_text)
    IN  IF start_date_text # "" /\ ~validate_date(start_date_text) THEN BadStartDate
        ELSE IF end_date_text # "" /\ ~validate_date(end_date_text) THEN BadEndDate
        ELSE IF start_date # NoDate /\ end_date # NoDate /\ start_date > end_date
        THEN StartAfterEnd
        ELSE ""

\* fetch_logs() with the followed tab as the current tab: what it leaves in
\* the buffer and the filtered list, and the message it shows ("" for none)
fetch_logs(class, now, fetched, f) ==
    LET done == Section(class, Search(<< >>, << >>, "", now.call, now.result),
                        fetched.items, strptime_date(f.start_date_text),
                        strptime_date(f.end_date_text), f.selected)
    IN  IF DateWarning(f.start_date_text, f.end_date_text) # ""
        THEN [now EXCEPT !.error = DateWarning(f.start_date_text, f.end_date_text)]
        ELSE IF fetched.raised
        THEN [now EXCEPT !.error = "fetch logs failed: " \o fetched.error]
        ELSE IF done.error # ""
        THEN [done EXCEPT !.error = "fetch logs failed: " \o done.error]
        ELSE done

\* the window's state on the followed tab
Now == Search(logs, filtered_logs, "", log_call, log_result)

\* a window call ends
WinCall(call, s) ==
    /\ win_call' = call
    /\ logs' = s.logs
    /\ filtered_logs' = s.filtered
    /\ log_call' = s.call
    /\ log_result' = s.result
    /\ UNCHANGED <<log_class, log_file, to_excel_calls>>

\* the items a fetch may bring and the selection of the combo box of the tab
TabItems == IF log_class = "System_Log" THEN SystemItems ELSE FilestationItems
TabSelection == IF log_class = "System_Log" THEN "Warning" ELSE "Upload"

\* the search button, on the system or the file-station tab;
\* `self.system_current_page = 1` follows the loop of the section, so it is
\* reached only by a search that no warning and no exception ended
FetchLogs(fetched, f) ==
    /\ log_class \in Classes
    /\ \E s \in {fetch_logs(log_class, Now, fetched, f)} :
          /\ WinCall([name |-> "fetch_logs",
                      fetched |-> IF DateWarning(f.start_date_text, f.end_date_text) # ""
                                  THEN NotFetched ELSE fetched,
                      filter |-> f, shown |-> s.error], s)
          /\ current_page' = IF s.error = "" THEN 1 ELSE current_page
    /\ UNCHANGED client_vars

\* LogWindow.__init__ up to its first fetch_logs(): the aggregators are built
\* and the lists are empty; what the client's calls return is an input of
\* fetch_logs
WindowInit ==
    /\ ClientInit
    /\ log_class \in Classes
    /\ logs = << >>
    /\ log_file = NoFile
    /\ log_call = [name |-> "__init__"]
    /\ log_result = NoResult
    /\ to_excel_calls = 0
    /\ filtered_logs = << >>
    /\ current_page = 1
    /\ win_call = [name |-> "__init__"]

WindowNext ==
    \/ \E items \in Batches(TabItems, MaxBatch), f \in Filters(TabSelection) :
          FetchLogs(Fetched(items), f)
    \/ \E f \in Filters(TabSelection) :
          FetchLogs(FetchRaised("fetch logs failed: API returned failure"), f)

WindowSpec == WindowInit /\ [][WindowNext]_vars

(* ------------------------------------------------------------------------ *)
(* LogWindow (src/module/main.py): the page controls of the system and the  *)
(* file-station tab.  current_page is the page of the followed tab.         *)
(* ------------------------------------------------------------------------ *)
\* ROWS_PER_PAGE = 100
ROWS_PER_PAGE == 100

\* (len(self.system_filtered_logs) + self.ROWS_PER_PAGE - 1) // self.ROWS_PER_PAGE
total_pages(filtered) == (Len(filtered) + ROWS_PER_PAGE - 1) \div ROWS_PER_PAGE

\* full pages of records a fetch may bring
MaxFullPages == 1

\* what the page edit may hold when return is pressed: numerals up to a page
\* past the last one, nothing, and text that is no number
PageNums == 0..(MaxFullPages + 2)
PageTexts == {ToString(n) : n \in PageNums} \cup {"", "x"}

\* int(text) returns; otherwise it raises ValueError
IsInt(text) == \E n \in PageNums : ToString(n) = text
int(text) == CHOOSE n \in PageNums : ToString(n) = text

\* the warning of a jump outside 1..total_pages
PageOutOfRange(total) == "the page number must be between 1 and " \o ToString(total)

\* system_jump_to_page() / filestation_jump_to_page(): the page it leaves and
\* the warning it shows ("" for none)
jump_to_page(page, filtered, text) ==
    IF ~IsInt(text) THEN [page |-> page, shown |-> ""]
    ELSE IF 1 <= int(text) /\ int(text) <= total_pages(filtered)
    THEN [page |-> int(text), shown |-> ""]
    ELSE [page |-> page, shown |-> PageOutOfRange(total_pages(filtered))]

\* system_prev_page() / filestation_prev_page()
prev_page(page) == IF page > 1 THEN page - 1 ELSE page

\* system_next_page() / filestation_next_page()
next_page(page, filtered) == IF page < total_pages(filtered) THEN page + 1 ELSE page

\* a page control ends: only the page changes
PageControl(call, page) ==
    /\ log_class \in Classes
    /\ win_call' = call
    /\ current_page' = page
    /\ UNCHANGED <<log_class, logs, log_file, log_call, log_result, to_excel_calls,
                   filtered_logs>>
    /\ UNCHANGED client_vars

\* return pressed in the page edit
JumpToPage(text) ==
    LET r == jump_to_page(current_page, filtered_logs, text)
    IN  PageControl([name |-> "jump_to_page", text |-> text, shown |-> r.shown], r.page)

\* the previous-page button
PrevPage == PageControl([name |-> "prev_page", text |-> "", shown |-> ""], prev_page(current_page))

\* the next-page button
NextPage ==
    PageControl([name |-> "next_page", text |-> "", shown |-> ""],
             next_page(current_page, filtered_logs))

\* n times the same record
Copies(item, n) == [i \in 1..n |-> item]

\* record counts around the page breaks
PageCounts == {1} \cup {k * ROWS_PER_PAGE + d : k \in 1..MaxFullPages, d \in {0, 1}}

\* the item lists a fetch may return to a window that is paged through
PagingBatches == {<< >>} \cup {Copies(i, n) : i \in TabItems, n \in PageCounts}

\* the date edits of those searches: empty, or text that is no date
PagingFilters == {Filter("", "", None), Filter("2024-13-01", "", None)}

PagingNext ==
    \/ \E items \in PagingBatches, f \in PagingFilters : FetchLogs(Fetched(items), f)
    \/ \E f \in PagingFilters :
          FetchLogs(FetchRaised("fetch logs failed: API returned failure"), f)
    \/ \E text \in PageTexts : JumpToPage(text)
    \/ PrevPage
    \/ NextPage

PagingSpec == WindowInit /\ [][PagingNext]_vars

(* ------------------------------------------------------------------------ *)
(* LogWindow (src/module/main.py): the rankings tab.  logs is the buffer of  *)
(* self.ranking_log, win_call.df the rows handed to populate_rankings.      *)
(* ------------------------------------------------------------------------ *)
\* df_event.head(10)
TopN == 10

\* the user names of the model in the order groupby sorts its keys
Actors == <<"alice", "bob", "carol", "dave", "erin", "frank", "grace", "heidi",
            "ivan", "judy", "mallory", "niaj">>

\* the (event, ranking_type) pairs of the loop of populate_rankings
RankingTypes == <<[event |-> "Upload", ranking_type |-> "upload"],
                  [event |-> "Download", ranking_type |-> "download"],
                  [event |-> "Delete", ranking_type |-> "delete"]>>

\* a file-station record of one actor on the first day
ActorItem(username, cmd) ==
    [time |-> "2024/01/01 08:00:00", ip |-> "10.0.0.1", username |-> username,
     cmd |-> cmd, isdir |-> "false", filesize |-> "1 KB", descr |-> "/a.txt"]

\* items fetch_filestation_logs may bring on the rankings tab: uploads of two
\* actors, a download, a delete on the third day, a copy without ip, an upload
\* whose time is null
RankingItems ==
    { ActorItem("alice", "upload"),
      ActorItem("bob", "Upload"),
      ActorItem("alice", "download"),
      [ActorItem("bob", "delete") EXCEPT !.time = "2024/01/03 00:00:00"],
      [time |-> "2024/01/02 23:59:59", username |-> "alice",
       cmd |-> "copy", isdir |-> "false", filesize |-> "1 KB", descr |-> "/e"],
      [ActorItem("bob", "upload") EXCEPT !.time = None] }

RECURSIVE Crowd(_, _)
\* a long fetch: the n-th actor of Actors, then the (n-1)-th, ... each with as
\* many uploads as counts says
Crowd(n, counts) ==
    IF n = 0 THEN << >>
    ELSE [k \in 1..counts[n] |-> ActorItem(Actors[n], "upload")] \o Crowd(n - 1, counts)

\* eleven actors with eleven different counts, and eleven actors of whom the
\* two with the fewest uploads are level
Crowds ==
    { Crowd(11, [n \in 1..11 |-> n]),
      Crowd(11, [n \in 1..11 |-> IF n = 1 THEN 2 ELSE n]) }

\* what fetch_user_info() gave back: the users list, or that it raised
UserInfo(users) == [asked |-> TRUE, raised |-> FALSE, error |-> "", users |-> users]
UserInfoRaised(msg) == [asked |-> TRUE, raised |-> TRUE, error |-> msg, users |-> << >>]
UserInfos ==
    { UserInfo(<<[name |-> "alice", description |-> "Alice", email |-> "alice@nas"],
                 [name |-> "bob"]>>),
      UserInfo(<< >>),
      UserInfoRaised("fetch user info failed: API returned failure") }

\* the date edits of the rankings tab: nothing, a range, a start after the end
RankingFilters ==
    { Filter("", "", None),
      Filter("2024-01-01", "2024-01-02", None),
      Filter("2024-01-03", "2024-01-02", None) }

\* the keys the rankings section reads with log[...], in the order read
RankingRead == <<"time", "ip", "username", "cmd", "isdir", "filesize", "descr">>

\* where the rankings section stands: the rows for populate_rankings and the
\* exception that cut the loop short ("" for none)
Rows(rows, error) == [rows |-> rows, error |-> error]

\* one turn of the loop of the rankings section
RankingRow(s, log, start_date, end_date) ==
    LET log_time == format_date(get(log, "time", ""))
        lacking == FirstLacking(log, RankingRead)
    IN  IF log_time = NoDate \/ ~date_match(start_date, end_date, log_time) THEN s
        ELSE IF lacking # "" THEN Rows(s.rows, KeyError(lacking))
        ELSE IF log.cmd = None THEN Rows(s.rows, NoLower)
        ELSE Rows(Append(s.rows, [log |-> "FileStation",
                                  time |-> log.time,
                                  ip |-> log.ip,
                                  user |-> log.username,
                                  event |-> map_event(log.cmd),
                                  kind |-> IF lower(str(log.isdir)) = "true"
                                           THEN "Folder" ELSE "File",
                                  filesize |-> log.filesize,
                                  filename |-> log.descr]),
                  "")

RECURSIVE RankingSection(_, _, _, _)
\* `for log in filestation_logs:` of the rankings section, left at the first
\* exception
RankingSection(s, items, start_date, end_date) ==
    IF items = << >> \/ s.error # "" THEN s
    ELSE RankingSection(RankingRow(s, Head(items), start_date, end_date),
                        Tail(items), start_date, end_date)

\* user_info_dict: the entry of the last user of that name, with "N/A" for a
\* description or an email the user lacks; NoProfile for a name not in it
NoProfile == [found |-> FALSE]
user_info_dict(users, name) ==
    LET named == {i \in DOMAIN users : users[i].name = name}
        user == users[CHOOSE i \in named : \A j \in named : i >= j]
    IN  IF named = {} THEN NoProfile
        ELSE [found |-> TRUE,
              description |-> get(user, "description", "N/A"),
              email |-> get(user, "email", "N/A")]

\* df[df[event column].str.contains(event)].groupby(user column).size(): one
\* row per actor with a row of that event, in the sorted order of the keys.
\* No label of EVENT_MAPPING contains the label of another ranking type, so
\* contains is equality on the labels.
GroupSize(df, event) ==
    LET Count(u) == Cardinality({i \in DOMAIN df : df[i].user = u /\ df[i].event = event})
        Has(u) == Count(u) > 0
        keys == SelectSeq(Actors, Has)
    IN  [k \in DOMAIN keys |-> [user |-> keys[k], count |-> Count(keys[k])]]

RECURSIVE Orders(_, _)
\* sort_values(by=count, ascending=False) with the default kind, quicksort,
\* which is not stable: every order of the rows of g at the indices left in
\* which the counts do not increase
Orders(g, left) ==
    IF left = {} THEN {<< >>}
    ELSE LET top == {i \in left : \A j \in left : g[i].count >= g[j].count}
         IN  UNION {{<<g[i]>> \o rest : rest \in Orders(g, left \ {i})} : i \in top}

\* mutant of head: the whole frame
head_keeps_all(rows, n) == rows

\* df_event.head(n)
head(rows, n) == SubSeq(rows, 1, IF Len(rows) < n THEN Len(rows) ELSE n)

\* the arguments of ranking_log.add_log for the row at index idx of df_event:
\* the name and email columns are user_info_dict.get(x, {}).get(..., "")
RankingEntry(row, idx, ranking_type, users) ==
    LET profile == user_info_dict(users, row.user)
    IN  [ranking_type |-> ranking_type,
         rank |-> idx + 1,
         username |-> row.user,
         count |-> row.count,
         name |-> IF profile.found THEN profile.description ELSE "",
         email |-> IF profile.found THEN profile.email ELSE ""]

RECURSIVE AddRanked(_, _, _, _, _)
\* `for idx, row in df_event.iterrows():` from index idx on
AddRanked(buf, rows, idx, ranking_type, users) ==
    IF idx >= Len(rows) THEN buf
    ELSE AddRanked(ranking_add_log(buf, NoFile,
                                   RankingEntry(rows[idx + 1], idx, ranking_type, users)).logs,
                   rows, idx + 1, ranking_type, users)

\* the frames df_event may be for one ranking type
Ranked(df, event) ==
    LET g == GroupSize(df, event)
    IN  {head(sorted, TopN) : sorted \in Orders(g, DOMAIN g)}

\* what populate_rankings(df) may leave in the buffer of the new Ranking_Log,
\* or the exception of fetch_user_info
populate_rankings(df, info) ==
    IF info.raised THEN {[raised |-> TRUE, error |-> info.error, logs |-> << >>]}
    ELSE {[raised |-> FALSE, error |-> "",
           logs |-> AddRanked(AddRanked(AddRanked(<< >>, up, 0, RankingTypes[1].ranking_type,
                                                  info.users),
                                        down, 0, RankingTypes[2].ranking_type, info.users),
                              del, 0, RankingTypes[3].ranking_type, info.users)] :
          up \in Ranked(df, RankingTypes[1].event),
          down \in Ranked(df, RankingTypes[2].event),
          del \in Ranked(df, RankingTypes[3].event)}

\* fetch_user_info was not called
NotAsked == [asked |-> FALSE, raised |-> FALSE, error |-> "", users |-> << >>]

\* what a search on the rankings tab leaves: the buffer of self.ranking_log,
\* the rows handed to populate_rankings, whether it was called, the message
Ranking(buf, df, populated, error) ==
    [logs |-> buf, df |-> df, populated |-> populated, error |-> error]

\* fetch_logs() with the rankings tab as the current tab: the outcomes it may
\* have
fetch_rankings(buf, fetched, f, info) ==
    LET section == RankingSection(Rows(<< >>, ""), fetched.items,
                                  strptime_date(f.start_date_text),
                                  strptime_date(f.end_date_text))
    IN  IF DateWarning(f.start_date_text, f.end_date_text) # ""
        THEN {Ranking(buf, << >>, FALSE, DateWarning(f.start_date_text, f.end_date_text))}
        ELSE IF fetched.raised
        THEN {Ranking(buf, << >>, FALSE, "fetch logs failed: " \o fetched.error)}
        ELSE IF section.error # ""
        THEN {Ranking(buf, << >>, FALSE, "fetch logs failed: " \o section.error)}
        ELSE IF section.rows = << >>
        THEN {Ranking(buf, << >>, FALSE, "")}
        ELSE {IF p.raised
              THEN Ranking(buf, section.rows, TRUE, "fetch logs failed: " \o p.error)
              ELSE Ranking(p.logs, section.rows, TRUE, "")
              : p \in populate_rankings(section.rows, info)}

\* the search button on the rankings tab; win_call keeps the rows and the
\* users the buffer was rebuilt from
FetchRankings(fetched, f, info) ==
    /\ log_class = "Ranking_Log"
    /\ \E r \in fetch_rankings(logs, fetched, f, info) :
          /\ win_call' = [name |-> "fetch_logs",
                          info |-> IF r.populated /\ r.error = "" THEN info ELSE NotAsked,
                          df |-> IF r.populated /\ r.error = "" THEN r.df ELSE << >>,
                          populated |-> r.populated,
                          shown |-> r.error]
          /\ logs' = r.logs
    /\ UNCHANGED <<log_class, log_file, log_call, log_result, to_excel_calls, filtered_logs,
                   current_page>>
    /\ UNCHANGED client_vars

\* LogWindow.__init__ up to its first fetch_logs(), followed on the rankings
\* tab: self.ranking_log is a Ranking_Log with an empty buffer
RankingInit ==
    /\ ClientInit
    /\ log_class = "Ranking_Log"
    /\ logs = << >>
    /\ log_file = NoFile
    /\ log_call = [name |-> "__init__"]
    /\ log_result = NoResult
    /\ to_excel_calls = 0
    /\ filtered_logs = << >>
    /\ current_page = 1
    /\ win_call = [name |-> "__init__"]

RankingNext ==
    \/ \E items \in Batches(RankingItems, MaxBatch), f \in RankingFilters, info \in UserInfos :
          FetchRankings(Fetched(items), f, info)
    \/ \E items \in Crowds, info \in UserInfos :
          FetchRankings(Fetched(items), Filter("", "", None), info)
    \/ \E f \in RankingFilters :
          FetchRankings(FetchRaised("fetch logs failed: API returned failure"), f, NotAsked)

RankingSpec == RankingInit /\ [][RankingNext]_vars

(* ------------------------------- claims ------------------------------- *)
\* the operations that run the fetch_all_logs loop
AllLogsOps == {"fetch_all_logs", "fetch_system_logs", "fetch_filestation_logs"}

Ended == pc = "idle"
Returned == Ended /\ result.kind = "return"
Raised == Ended /\ result.kind = "raise"

RECURSIVE Concat(_)
\* the items of a sequence of pages, page after page
Concat(ps) == IF ps = << >> THEN << >> ELSE Head(ps) \o Concat(Tail(ps))

Min(a, b) == IF a < b THEN a ELSE b
Max(a, b) == IF a > b THEN a ELSE b

\* C1: in a fetch_all_logs run the first fetch_logs_page call asks for offset 0,
\* every call asks for limit = page_size, a page with exactly limit records is
\* followed by the call at offset + limit, and at the first page with fewer
\* records the run has returned without a further call.
C1_PagingProtocol ==
    op \in AllLogsOps =>
        /\ page_reqs # << >> => page_reqs[1].offset = 0
        /\ \A i \in 1..Len(page_reqs) :
              /\ page_reqs[i].limit = args.page_size
              /\ page_reqs[i].logtype = args.logtype
        /\ last_req # NoReq =>
              /\ last_req.limit = args.page_size
              /\ \E i \in 1..Len(page_reqs) : last_req.offset = page_reqs[i].offset
        /\ Len(pages) <= Len(page_reqs)
        /\ \A i \in 1..Len(pages) :
              /\ Len(pages[i]) = args.page_size =>
                    /\ Len(page_reqs) >= i + 1
                    /\ page_reqs[i + 1].offset = page_reqs[i].offset + args.page_size
              /\ Len(pages[i]) < args.page_size =>
                    /\ Len(page_reqs) = i
                    /\ Len(pages) = i
                    /\ Returned

\* C1 witness: a run that fetched a full page, then a short one, and returned
C1_Witness ==
    /\ op \in AllLogsOps
    /\ Returned
    /\ args.page_size = 2
    /\ Len(pages) = 2
    /\ Len(pages[1]) = 2
    /\ Len(pages[2]) = 1
    /\ page_reqs = <<PageCall(args.logtype, 2, 0), PageCall(args.logtype, 2, 2)>>

\* C2: when fetch_all_logs returns, data.items is the concatenation of the
\* fetched pages in page order and within-page order, repetitions kept, and the
\* success flag is true.
C2_ItemsAreThePages ==
    (op \in AllLogsOps /\ Returned) =>
        /\ result.value.success = TRUE
        /\ result.value.data.items = Concat(pages)
        /\ Len(result.value.data.items) = Len(Concat(pages))

\* C2 witness: two pages with a repeated record and both orders of r1, r2
C2_Witness ==
    /\ op \in AllLogsOps
    /\ Returned
    /\ pages = << <<"r2", "r1">>, <<"r2">> >>
    /\ result.value.data.items = <<"r2", "r1", "r2">>

\* the largest record count of a server whose pages the model can follow
MaxRecords == MaxPages * MaxPageSize

\* the records [off, min(off + lim, n)) of a server that holds n records
HonestCount(n, off, lim) == Max(0, Min(off + lim, n) - off)

\* every page received so far is what a server holding n records answers
HonestSoFar(n) ==
    \A i \in 1..Len(pages) :
        Len(pages[i]) = HonestCount(n, page_reqs[i].offset, page_reqs[i].limit)

\* C3: with a session, page_size p >= 1 and a server that holds N records and
\* answers each page call with the records [offset, min(offset + limit, N)),
\* fetch_all_logs keeps running until it has made floor(N / p) + 1 page calls,
\* then returns all N records, and makes no call beyond that.
C3_HonestServerTerminates ==
    \A n \in 0..MaxRecords :
        ( /\ op \in AllLogsOps
          /\ args.page_size >= 1
          /\ ~NotSid(sid_before)
          /\ ~Raised
          /\ HonestSoFar(n) ) =>
            LET need == (n \div args.page_size) + 1
            IN  /\ Len(page_reqs) <= need
                /\ Len(pages) < need => pc \in {"all_logs", "page"}
                /\ Len(pages) = need =>
                      /\ Returned
                      /\ Len(page_reqs) = need
                      /\ Len(result.value.data.items) = n
                      /\ result.value.data.items = Concat(pages)

\* C3 witness: N = 2 records and page_size 2, a full page and the empty last one
C3_Witness ==
    /\ op \in AllLogsOps
    /\ Returned
    /\ args.page_size = 2
    /\ Len(pages) = 2
    /\ HonestSoFar(2)
    /\ pages[2] = << >>
    /\ Len(result.value.data.items) = 2

\* a step in which login returns a token
LoginReturns == pc = "login" /\ pc' = "idle" /\ result'.kind = "return"

\* a step in which the server confirms a logout
LogoutConfirmed ==
    /\ pc = "logout"
    /\ last_resp' = Json([success |-> TRUE])

\* C4: the stored token is absent at construction and from a logout the server
\* confirmed until a login returns; a login that returns sets it to the token
\* it returns, a logout the server confirms clears it, and no other step of
\* any operation changes it.
C4_TokenLifecycle ==
    /\ sid = None
    /\ [](logged_out => sid = None)
    /\ [][ /\ LoginReturns => sid' = result'.value
           /\ LogoutConfirmed => sid' = None
           /\ ~LoginReturns /\ ~LogoutConfirmed => sid' = sid ]_vars

\* C4 witness: with sid1 stored, a second login returned sid2, now the token
C4_Witness ==
    /\ op = "login"
    /\ Returned
    /\ sid_before = "sid1"
    /\ result.value = "sid2"
    /\ sid = "sid2"

\* the operations that need a session
AuthenticatedOps == AllLogsOps \cup {"fetch_user_info", "fetch_logs_page"}

\* C5: an authenticated operation entered while the token is absent fails and
\* issues no network request.
C5_NoRequestWithoutToken ==
    (op \in AuthenticatedOps /\ sid_before = None) =>
        /\ net_count = 0
        /\ last_req = NoReq
        /\ Ended => result.kind = "raise"

\* the message of the session check of an operation
NotLoggedInMessage(name) ==
    IF name = "fetch_user_info" THEN "not logged in, call login first" ELSE "not logged in"

\* C6: from a logout the server confirmed until a login returns, fetch_user_info,
\* fetch_all_logs, fetch_system_logs and fetch_filestation_logs end with the
\* not-logged-in error, at their first attempt, without a wait and without a
\* network request.
C6_AfterLogoutNotAuthenticated ==
    (logged_out /\ op \in AllLogsOps \cup {"fetch_user_info"}) =>
        /\ net_count = 0
        /\ last_req = NoReq
        /\ page_reqs = << >>
        /\ attempt_number = FirstAttempt
        /\ idle_for = 0
        /\ pc \in {"idle", "all_logs", "user_info"}
        /\ Ended => result = Raise("Exception", NotLoggedInMessage(op))

\* C6 witness: fetch_system_logs has failed after a confirmed logout
C6_Witness ==
    /\ logged_out
    /\ op = "fetch_system_logs"
    /\ Raised
    /\ result.msg = "not logged in"

\* the last login response carried data.sid
LoginGotSid ==
    /\ op = "login"
    /\ last_resp.kind = "json"
    /\ "data" \in DOMAIN last_resp.body

\* the last login response carried no data.sid and one of these error codes
LoginGotError(codes) ==
    /\ op = "login"
    /\ last_resp.kind = "json"
    /\ "error" \in DOMAIN last_resp.body
    /\ last_resp.body.error.code \in codes

\* C7: when the login response contains data.sid, login returns that token, the
\* stored token is that token, and no callback has been invoked.
C7_LoginStoresToken ==
    LoginGotSid =>
        /\ Returned
        /\ result.value = last_resp.body.data.sid
        /\ sid = last_resp.body.data.sid
        /\ cb_password = 0
        /\ cb_otp = 0

\* C7 witness: a login that returned sid1 at its second attempt, on a client with
\* no token, both callbacks supplied
C7_Witness ==
    /\ LoginGotSid
    /\ Returned
    /\ sid_before = None
    /\ sid = "sid1"
    /\ attempt_number.net = 2
    /\ args.clear_password_callback
    /\ args.clear_otp_callback

\* C8: when the login response carries 400, 408, 409 or 410 and a
\* clear_password_callback is supplied, login ends there with the catalog
\* message of the code, the callback has been invoked once over the whole call
\* and the clear_otp_callback never.
C8_PasswordCallbackOnce ==
    (LoginGotError({400, 408, 409, 410}) /\ args.clear_password_callback) =>
        /\ Raised
        /\ result = Raise("Exception", ERROR_MESSAGES[last_resp.body.error.code])
        /\ cb_password = 1
        /\ cb_otp = 0

\* C8 witness: code 409 at the third attempt, after two transport failures
C8_Witness ==
    /\ LoginGotError({409})
    /\ args.clear_password_callback
    /\ args.clear_otp_callback
    /\ attempt_number.net = 3
    /\ idle_for = 2 * WaitFixed
    /\ cb_password = 1

\* C9 as claimed: when the login response carries 403, 404 or 406 and a
\* clear_otp_callback is supplied, login fails and has invoked the callback.
C9_OtpCallbackOnEveryOtpCode ==
    (LoginGotError({403, 404, 406}) /\ args.clear_otp_callback) =>
        /\ Raised
        /\ cb_otp >= 1

\* C9 amended: when the login response carries 404 or 406 and a
\* clear_otp_callback is supplied, login fails with the catalog message and has
\* invoked the callback once; with 403 it fails with the catalog message and
\* has not invoked it.
C9_OtpCallbackOn404And406 ==
    /\ (LoginGotError({404, 406}) /\ args.clear_otp_callback) =>
          /\ Raised
          /\ result = Raise("Exception", ERROR_MESSAGES[last_resp.body.error.code])
          /\ cb_otp = 1
          /\ cb_password = 0
    /\ LoginGotError({403}) =>
          /\ Raised
          /\ result = Raise("Exception", ERROR_MESSAGES[403])
          /\ cb_otp = 0

\* C9 witness: code 406 with both callbacks supplied
C9_Witness ==
    /\ LoginGotError({406})
    /\ args.clear_password_callback
    /\ args.clear_otp_callback
    /\ Raised
    /\ cb_otp = 1

\* C10: an operation that ends in failure (an exception, or logout returning
\* False) has left the stored token as it was when the operation was entered,
\* and no operation changes the token before it ends.
C10_FailureKeepsToken ==
    /\ Raised => sid = sid_before
    /\ (op = "logout" /\ Returned /\ result.value = FALSE) => sid = sid_before
    /\ ~Ended => sid = sid_before

\* C10 witness: with a token stored, a logout hit a transport error and the
\* token is still stored
C10_Witness ==
    /\ op = "logout"
    /\ Raised
    /\ last_resp.kind = "transport"
    /\ sid_before = "sid1"
    /\ sid = "sid1"

\* C11: logout entered while no token is stored returns True at once, sends no
\* request and leaves the token absent; so a logout right after a confirmed
\* one changes nothing.
C11_LogoutWithoutSession ==
    (op = "logout" /\ sid_before = None) =>
        /\ Returned
        /\ result.value = TRUE
        /\ net_count = 0
        /\ last_req = NoReq
        /\ last_resp = NoResp
        /\ attempt_number = FirstAttempt
        /\ sid = None

\* C11 witness: the second logout after one the server confirmed
C11_Witness ==
    /\ op = "logout"
    /\ logged_out
    /\ sid_before = None
    /\ Returned
    /\ net_count = 0

\* C12: logout entered with a token has three outcomes: the server reports
\* success, the token is cleared and True is returned; the server reports
\* failure, False is returned, nothing is raised and the token is kept; the
\* request fails at transport level, an error is raised and the token is kept.
C12_LogoutOutcomes ==
    (op = "logout" /\ ~NotSid(sid_before)) =>
        /\ pc \in {"logout", "idle"}
        /\ pc = "logout" => (sid = sid_before /\ net_count = 0)
        /\ Ended =>
              /\ net_count = 1
              /\ \/ /\ last_resp = Json([success |-> TRUE])
                    /\ result = Return(TRUE)
                    /\ sid = None
                 \/ /\ last_resp = Json([success |-> FALSE])
                    /\ result = Return(FALSE)
                    /\ sid = sid_before
                 \/ /\ last_resp.kind = "transport"
                    /\ result.kind = "raise"
                    /\ sid = sid_before

\* C12 witness: the server reported success and the token sid2 is gone
C12_Witness ==
    /\ op = "logout"
    /\ sid_before = "sid2"
    /\ result = Return(TRUE)
    /\ last_resp = Json([success |-> TRUE])
    /\ sid = None

\* the last response is a well-formed page with a true success flag
GotPage ==
    /\ last_resp.kind = "json"
    /\ last_resp.body.success

\* a step in which an attempt of fetch_logs_page fails at transport level
PageAttemptFails(n) ==
    /\ pc = "page"
    /\ attempt_number.net = n
    /\ last_resp'.kind = "transport"

\* a step in which attempt n of fetch_logs_page inside fetch_all_logs brings a
\* page of items
PageAttemptBringsItems(n) ==
    /\ pc = "page"
    /\ op \in AllLogsOps
    /\ attempt_number.net = n
    /\ last_resp'.kind = "json"
    /\ last_resp'.body.success
    /\ last_resp'.body.shape = "items"

\* what the loop of fetch_all_logs does with a page of items
PageIsAccumulated ==
    LET items == last_resp'.body.items
    IN  /\ pages' = Append(pages, items)
        /\ all_items' = all_items \o items
        /\ result'.kind # "raise"
        /\ IF Len(items) < limit
           THEN /\ pc' = "idle"
                /\ result' = Return(AllLogsData(all_items \o items))
                /\ page_reqs' = page_reqs
           ELSE /\ pc' = "page"
                /\ page_reqs' = Append(page_reqs, PageCall(args.logtype, limit, offset + limit))

\* C13: a transport error at attempt 1 or 2 of a page fetch leaves the call
\* running with nothing raised and the same page call pending; a page fetch
\* that succeeds, at attempt 3 as at any other, returns that response to the
\* caller, and inside fetch_all_logs its items are accumulated and the next
\* page call is made at offset + limit.
C13_RetryIsTransparent ==
    /\ []((op = "fetch_logs_page" /\ GotPage) => (Returned /\ result.value = last_resp.body))
    /\ [][ /\ \A n \in 1..2 : PageAttemptFails(n) =>
                /\ pc' = "page"
                /\ result' = NoResult
                /\ attempt_number'.net = n + 1
                /\ UNCHANGED <<page_reqs, pages, all_items, offset, limit, sid>>
           /\ \A n \in 1..3 : PageAttemptBringsItems(n) => PageIsAccumulated ]_vars

\* C13 witness: inside fetch_all_logs the second page arrived at the third
\* attempt, after two waits, and the run returned both pages
C13_Witness ==
    /\ op \in AllLogsOps
    /\ Returned
    /\ attempt_number.net = 3
    /\ idle_for = 2 * WaitFixed
    /\ net_count = 3
    /\ Len(pages) = 2
    /\ pages[1] # << >>
    /\ result.value.data.items = Concat(pages)
    /\ page_reqs[2].offset = args.page_size

\* a well-formed response that reports a failure at application level
AppFailure ==
    /\ last_resp.kind = "json"
    /\ \/ op = "login" /\ "error" \in DOMAIN last_resp.body
       \/ op # "login" /\ ~last_resp.body.success

\* C14: a call of login, fetch_user_info or fetch_logs_page (called directly or
\* from fetch_all_logs) makes at most 3 network attempts; attempt n + 1 is made
\* only after attempt n failed at transport level and after one wait of
\* WaitFixed; a well-formed response reporting a failure ends the call at that
\* attempt.
C14_BoundedRetry ==
    op \in {"login", "fetch_user_info", "fetch_logs_page"} \cup AllLogsOps =>
        /\ net_count <= 3
        /\ attempt_number.net \in 1..3
        /\ idle_for = WaitFixed * (attempt_number.net - 1)
        /\ pc \in {"login", "user_info", "page"} =>
              /\ net_count = attempt_number.net - 1
              /\ net_count > 0 => last_resp.kind = "transport"
        /\ (Ended /\ net_count > 0) => net_count = attempt_number.net
        /\ AppFailure => (Raised /\ result.exc = "Exception")

\* C14 witness: fetch_user_info got a failure response at its second attempt
\* and ended there
C14_Witness ==
    /\ op = "fetch_user_info"
    /\ AppFailure
    /\ Raised
    /\ net_count = 2
    /\ idle_for = WaitFixed

\* C15 as claimed: a logout whose request fails at transport level is attempted
\* again, up to 3 attempts, before the failure is raised.
C15_LogoutIsRetried ==
    (op = "logout" /\ Raised /\ last_resp.kind = "transport") => net_count = MaxAttempts

\* C15 amended: logout is not retried: it makes at most one request, never
\* waits, and a transport failure of that request is raised at once.
C15_LogoutIsNotRetried ==
    op = "logout" =>
        /\ net_count <= 1
        /\ attempt_number = FirstAttempt
        /\ idle_for = 0
        /\ last_resp.kind = "transport" =>
              /\ Raised
              /\ net_count = 1
              /\ result = Raise("Exception", "logout failed: " \o last_resp.error)

\* C15 witness: a logout that raised after its only request timed out
C15_Witness ==
    /\ op = "logout"
    /\ Raised
    /\ last_resp = TransportError("Timeout")
    /\ net_count = 1

\* C16: when all 3 attempts of login, fetch_user_info or fetch_logs_page fail at
\* transport level, the caller receives the transport failure of the third
\* attempt.
C16_LastTransportFailureSurfaces ==
    ( /\ op \in {"login", "fetch_user_info", "fetch_logs_page"}
      /\ Ended
      /\ net_count = MaxAttempts
      /\ last_resp.kind = "transport" ) =>
        result = RequestException(last_resp.error)

\* a page response on which fetch_all_logs must fail, with the message of the
\* exception it causes
PageFailureCause ==
    IF last_resp.kind = "transport"
    THEN "RetryError[" \o last_resp.error \o "]"
    ELSE IF ~last_resp.body.success
    THEN "API returned failure"
    ELSE "invalid log data, missing data or items"

PageFetchFailed ==
    /\ op \in AllLogsOps
    /\ \/ last_resp.kind = "transport" /\ net_count = MaxAttempts
       \/ last_resp.kind = "json" /\ ~last_resp.body.success
       \/ last_resp.kind = "json" /\ last_resp.body.success /\ last_resp.body.shape # "items"

\* C17: fetch_all_logs ends with an Exception whose message carries the cause
\* at the first page whose fetch fails after its retries, reports
\* success = false, or lacks data or items; the failing page is the last page
\* call made, and the run was not started again.
C17_FailsAtFirstBadPage ==
    /\ PageFetchFailed =>
          /\ Raised
          /\ result = Raise("Exception", "fetch logs failed: " \o PageFailureCause)
          /\ Len(page_reqs) = Len(pages) + 1
    /\ (op \in AllLogsOps /\ Raised) =>
          /\ attempt_number.all = 1
          /\ attempt_number.wrap = 1
          /\ page_reqs # << >> => PageFetchFailed

\* C17 witness: the second page came without items and the run failed there
C17_Witness ==
    /\ PageFetchFailed
    /\ Raised
    /\ last_resp = Json(PageData("no items", << >>))
    /\ Len(pages) = 1
    /\ Len(page_reqs) = 2

\* C18: a fetch_all_logs run that fails at some page gives the caller an error
\* and no records, whatever was accumulated before; every run starts with an
\* empty accumulator and its first page call at offset 0.
C18_NoPartialResult ==
    /\ []((op \in AllLogsOps /\ PageFetchFailed) =>
              (Ended /\ result.kind = "raise" /\ DOMAIN result = {"kind", "exc", "msg"}))
    /\ [][(pc = "all_logs" /\ pc' = "page") =>
              /\ all_items' = << >>
              /\ offset' = 0
              /\ page_reqs'[Len(page_reqs')].offset = 0
              /\ pages' = << >> ]_vars

\* C18 witness: a full first page was accumulated, the second page failed
C18_Witness ==
    /\ PageFetchFailed
    /\ Raised
    /\ Len(pages) = 1
    /\ Len(pages[1]) = 2
    /\ all_items = pages[1]

\* the ten codes of the catalog
KnownCodes == {400, 401, 402, 403, 404, 406, 407, 408, 409, 410}

\* how Python formats a code inside the unknown-error text
CodeText(c) == IF c = NoCode THEN "None" ELSE ToString(c)

\* C19: the catalog lookup gives each of the ten known codes its fixed message
\* and every other code, 405 and a missing code included, the unknown-error
\* text carrying that code; the lookup fails for no code and changes no state.
C19_ErrorCatalogTotal ==
    /\ DOMAIN ERROR_MESSAGES = KnownCodes
    /\ \A c \in Codes : LoginGotError({c}) =>
          /\ Raised
          /\ result.msg = IF c \in KnownCodes
                          THEN ERROR_MESSAGES[c]
                          ELSE "unknown error (code: " \o CodeText(c) \o ")"
          /\ sid = sid_before

\* C19 witness: the response carried 405, which the catalog does not hold
C19_Witness ==
    /\ LoginGotError({405})
    /\ Raised
    /\ result.msg = "unknown error (code: 405)"

\* a step that is a save_to_file call
Flush == log_call'.name = "save_to_file"

\* the last call was a save_to_file that returned v
Flushed(v) ==
    /\ log_call.name = "save_to_file"
    /\ log_result.kind = "return"
    /\ log_result.value = v

\* C20: on either aggregator, save_to_file on an empty buffer returns false
\* and writes no file; a save_to_file that returns true has written the file
\* once and leaves the buffer empty; a save_to_file right after one that
\* returned true returns false and writes nothing.
C20_FlushOfEmptyBuffer ==
    /\ [](Flushed(TRUE) =>
             (logs = << >> /\ to_excel_calls = 1 /\ log_file.state = "written"))
    /\ [][ /\ (Flush /\ logs = << >>) =>
                 /\ log_result' = Return(FALSE)
                 /\ to_excel_calls' = 0
                 /\ log_file' = log_file
                 /\ logs' = << >>
           /\ (Flush /\ Flushed(TRUE)) =>
                 /\ log_result' = Return(FALSE)
                 /\ to_excel_calls' = 0
                 /\ log_file' = log_file ]_vars

\* C20 witness: two records were written, and the flush after that returned false
C20_Witness ==
    /\ Flushed(FALSE)
    /\ log_file.state = "written"
    /\ Len(log_file.rows) = 2
    /\ logs = << >>

\* a step that is a flush of any of the three classes
AnyFlush == log_call'.name \in {"save_to_file", "save_to_excel"}

\* C21: for the three aggregators a flush clears the buffer exactly when its
\* write succeeded, and then returns true; when the write fails the flush
\* raises and the buffer holds the same records in the same order.
C21_ClearedIffWritten ==
    [][ AnyFlush =>
          /\ log_call'.write = "written" =>
                (logs' = << >> /\ log_result' = Return(TRUE) /\ log_file'.state = "written")
          /\ log_call'.write = "failed" =>
                (logs' = logs /\ log_result'.kind = "raise" /\ log_result'.exc = "Exception")
          /\ logs # << >> => (logs' = << >> <=> log_call'.write = "written")
          /\ logs' \in {logs, << >>} ]_vars

\* C21 witness: the write of a ranking buffer of two entries failed and the two
\* entries are still there
C21_Witness ==
    /\ log_class = "Ranking_Log"
    /\ log_call.name = "save_to_excel"
    /\ log_call.write = "failed"
    /\ log_result.kind = "raise"
    /\ Len(logs) = 2
    /\ logs[1] # logs[2]

\* a step that is an add_log call on a System_Log
SystemAdd == log_class = "System_Log" /\ log_call'.name = "add_log"

\* the first of level, time, who, descr that the raw record lacks
FirstMissing(log) ==
    IF "level" \notin DOMAIN log THEN "level"
    ELSE IF "time" \notin DOMAIN log THEN "time"
    ELSE IF "who" \notin DOMAIN log THEN "who"
    ELSE "descr"

HasAllFour(log) == {"level", "time", "who", "descr"} \subseteq DOMAIN log

\* add_log failed naming the first missing field and left the buffer alone
RejectedForMissing(log) ==
    /\ log_result' =
          Raise("Exception", "add log failed: 'missing item: " \o FirstMissing(log) \o "'")
    /\ logs' = logs

\* add_log put one record made of the raw record's fields at the end
AppendedOne(log) ==
    /\ log_result'.kind = "return"
    /\ Len(logs') = Len(logs) + 1
    /\ SubSeq(logs', 1, Len(logs)) = logs
    /\ LET entry == logs'[Len(logs')]
       IN  /\ entry.log = "System"
           /\ entry.time = log.time
           /\ entry.user = log.who
           /\ entry.event = log.descr
           /\ entry.priority \in {"Information", "Warning", "Error", "Unknown event"}

\* C22 as claimed: System_Log.add_log on a raw record lacking one of level,
\* time, who, descr fails naming the first missing one and leaves the buffer
\* unchanged; on a record that has all four it appends exactly one normalized
\* record at the end of the buffer.
C22_AddValidatesPresence ==
    [][ SystemAdd =>
          LET log == log_call'.log
          IN  IF HasAllFour(log) THEN AppendedOne(log) ELSE RejectedForMissing(log) ]_vars

\* C22 amended: the record is appended when it has all four fields and its
\* level is a string; with a null level add_log fails although no field is
\* missing, and the buffer is unchanged then too.
C22_AddValidatesPresenceAndLevel ==
    [][ SystemAdd =>
          LET log == log_call'.log
          IN  IF ~HasAllFour(log) THEN RejectedForMissing(log)
              ELSE IF log.level = None
              THEN /\ log_result'.kind = "raise"
                   /\ log_result'.exc = "Exception"
                   /\ logs' = logs
              ELSE AppendedOne(log) ]_vars

\* C22 witness: a record without level and who was refused, naming level, while
\* the buffer held one record
C22_Witness ==
    /\ log_class = "System_Log"
    /\ log_call.name = "add_log"
    /\ DOMAIN log_call.log = {"time", "descr"}
    /\ log_result.kind = "raise"
    /\ log_result.msg = "add log failed: 'missing item: level'"
    /\ Len(logs) = 1

\* the last call was map_priority or map_event
Mapped == log_call.name \in {"map_priority", "map_event"}

Export == log_call'.name = "save_to_excel"

\* the buffer has an entry of this ranking type
HasEntries(buf, t) == \E i \in DOMAIN buf : buf[i].type = t

\* the workbook written by a step has a sheet for exactly the types that have
\* entries in the buffer, in the order upload, download, delete
SheetPerCategory ==
    LET sheets == log_file'.sheets
    IN  /\ \A t \in {"upload", "download", "delete"} :
              HasEntries(logs, t) <=> \E i \in DOMAIN sheets : sheets[i].name = t
        /\ \A i, j \in DOMAIN sheets : i < j =>
              \/ sheets[i].name = "upload"
              \/ sheets[i].name = "download" /\ sheets[j].name = "delete"
        /\ \A i \in DOMAIN sheets :
              /\ sheets[i].rows # << >>
              /\ Len(sheets[i].rows) =
                    Cardinality({k \in DOMAIN logs : logs[k].type = sheets[i].name})

\* C28 as claimed: a ranking export writes one sheet per category that has an
\* entry and skips the others; with all three categories empty it still
\* returns true and writes a workbook without data sheets.
C28_EmptyExportSucceeds ==
    [][ Export =>
          /\ log_call'.write = "written" => SheetPerCategory
          /\ (\A t \in {"upload", "download", "delete"} : ~HasEntries(logs, t)) =>
                /\ log_result' = Return(TRUE)
                /\ log_file' = RankingWorkbook(<< >>) ]_vars

\* C28 amended: a ranking export writes one sheet per category that has an
\* entry and skips the others; a workbook is never written without a sheet,
\* and with all three categories empty, the buffer being empty, the export
\* returns false and writes nothing.
C28_EmptyExportReturnsFalse ==
    [][ Export =>
          /\ log_call'.write = "written" => SheetPerCategory
          /\ log_result' = Return(TRUE) => (log_file'.state = "written" /\ log_file'.sheets # << >>)
          /\ (\A t \in {"upload", "download", "delete"} : ~HasEntries(logs, t)) =>
                /\ logs = << >>
                /\ log_result' = Return(FALSE)
                /\ to_excel_calls' = 0
                /\ log_file' = log_file ]_vars

\* C28 witness: a buffer with entries of two categories was written as two sheets
C28_Witness ==
    /\ log_call.name = "save_to_excel"
    /\ log_call.write = "written"
    /\ log_result = Return(TRUE)
    /\ Len(log_file.sheets) = 2

\* the operation was entered while self.sid was None or empty
EnteredWithoutToken == sid_before \in {None, ""}

\* C30: fetch_logs_page entered without a token issues its request all the
\* same, carrying the absent token as _sid, and never ends with the
\* not-logged-in error; fetch_all_logs entered in the same state ends with
\* that error before any page call and any request.
C30_PageFetchSkipsSessionCheck ==
    /\ (op = "fetch_logs_page" /\ EnteredWithoutToken) =>
          /\ Ended => net_count >= 1
          /\ net_count >= 1 => (last_req.api = LogParams.api /\ last_req._sid = sid_before)
          /\ Raised => result.msg # "not logged in"
    /\ (op = "fetch_all_logs" /\ EnteredWithoutToken) =>
          /\ net_count = 0
          /\ last_req = NoReq
          /\ page_reqs = << >>
          /\ Ended => result = Raise("Exception", "not logged in")

\* C30 witness: fetch_logs_page on a fresh client got its page at the first attempt
C30_Witness ==
    /\ op = "fetch_logs_page"
    /\ sid_before = None
    /\ Returned
    /\ net_count = 1
    /\ last_req._sid = None

\* the last window call was a search that fetched a batch
Searched ==
    /\ win_call.name = "fetch_logs"
    /\ win_call.fetched.called
    /\ ~win_call.fetched.raised

\* the record has a timestamp that parses
Dated(log) == "time" \in DOMAIN log /\ format_date(log.time) # NoDate

\* the record passes the filter of the search
Passes(class, log, f) ==
    /\ Dated(log)
    /\ \/ f.start_date_text = ""
       \/ f.end_date_text = ""
       \/ /\ strptime_date(f.start_date_text) <= format_date(log.time)
          /\ format_date(log.time) <= strptime_date(f.end_date_text)
    /\ \/ f.selected = None
       \/ IF class = "System_Log"
          THEN "level" \in DOMAIN log /\ map_priority(log.level) = f.selected
          ELSE "cmd" \in DOMAIN log /\ map_event(log.cmd) = f.selected

\* the normalized record of a raw record
Normalized(class, log) ==
    IF class = "System_Log"
    THEN [priority |-> map_priority(get(log, "level", "N/A")),
          log |-> "System",
          time |-> get(log, "time", "N/A"),
          user |-> get(log, "who", "N/A"),
          event |-> get(log, "descr", "N/A")]
    ELSE [log |-> "FileStation",
          time |-> get(log, "time", "N/A"),
          ip |-> get(log, "ip", "N/A"),
          user |-> get(log, "username", "N/A"),
          event |-> map_event(get(log, "cmd", "N/A")),
          kind |-> IF get(log, "isdir", "False") \in {"true", "True", "TRUE"}
                   THEN "Folder" ELSE "File",
          filesize |-> get(log, "filesize", "N/A"),
          filename |-> get(log, "descr", "N/A")]

\* the records of the batch that pass the filter, in the order of the batch
Passing(class, items, f) ==
    LET Pass(log) == Passes(class, log, f)
    IN  SelectSeq(items, Pass)

\* C24: after a search that fetched a batch, the buffer holds one normalized
\* record per record of the batch that passed the filter and was added, in
\* the order of the batch: all of them when the search ran to its end, those
\* before the exception when it was cut short.
C24_BufferKeepsPageOrder ==
    Searched =>
        LET passing == Passing(log_class, win_call.fetched.items, win_call.filter)
        IN  /\ Len(logs) <= Len(passing)
            /\ \A i \in 1..Len(logs) : logs[i] = Normalized(log_class, passing[i])
            /\ win_call.shown = "" => Len(logs) = Len(passing)

\* C24 witness: two different records both passed and were added in turn
C24_Witness ==
    /\ Searched
    /\ win_call.shown = ""
    /\ Len(win_call.fetched.items) = 2
    /\ Len(logs) = 2
    /\ logs[1] # logs[2]

\* C29: a record whose timestamp is missing, empty, null or unparseable is in
\* neither the buffer nor the filtered list, and the search leaves what it
\* would have left had the batch come without those records.
C29_BadTimestampIsSkipped ==
    Searched =>
        LET dated == SelectSeq(win_call.fetched.items, Dated)
            without == fetch_logs(log_class,
                                  Search(<< >>, << >>, "", [name |-> "__init__"], NoResult),
                                  Fetched(dated), win_call.filter)
        IN  /\ \A i \in 1..Len(logs) : format_date(logs[i].time) # NoDate
            /\ \A i \in 1..Len(filtered_logs) : format_date(filtered_logs[i].time) # NoDate
            /\ logs = without.logs
            /\ filtered_logs = without.filtered
            /\ win_call.shown = without.error

\* C29 witness: a batch began with a record whose timestamp is bad, and the
\* record after it was ingested
C29_Witness ==
    /\ Searched
    /\ Len(win_call.fetched.items) = 2
    /\ ~Dated(win_call.fetched.items[1])
    /\ win_call.shown = ""
    /\ Len(logs) = 1
    /\ Len(filtered_logs) = 1

\* the last search on the rankings tab rebuilt the buffer
Rebuilt ==
    /\ win_call.name = "fetch_logs"
    /\ win_call.populated
    /\ win_call.shown = ""

\* the entries of the buffer of one ranking type, in buffer order
Entries(ranking_type) ==
    LET OfType(entry) == entry.type = ranking_type
    IN  SelectSeq(logs, OfType)

\* the positions in the input rows of one actor's records of one category
RecordsOf(username, event) ==
    {i \in DOMAIN win_call.df : win_call.df[i].user = username /\ win_call.df[i].event = event}

\* the actors with at least one record of the category
ActorsOf(event) ==
    {win_call.df[i].user : i \in {j \in DOMAIN win_call.df : win_call.df[j].event = event}}

\* C25: for each ranking type, the buffer rebuilt from the input rows holds
\* N = min(10, number of distinct actors of the category) entries, one per
\* actor, each with that actor's number of records of the category, the
\* counts not increasing down the list, and the ranks 1..N in turn.
C25_RankingShape ==
    Rebuilt =>
        \A t \in DOMAIN RankingTypes :
            LET entries == Entries(RankingTypes[t].ranking_type)
                event == RankingTypes[t].event
                actors == ActorsOf(event)
            IN  /\ Len(entries) = IF Cardinality(actors) < 10 THEN Cardinality(actors) ELSE 10
                /\ \A k \in DOMAIN entries :
                      /\ entries[k].rank = ToString(k)
                      /\ entries[k].user \in actors
                      /\ entries[k].count = ToString(Cardinality(RecordsOf(entries[k].user, event)))
                /\ \A j, k \in DOMAIN entries :
                      j < k =>
                          /\ entries[j].user # entries[k].user
                          /\ Cardinality(RecordsOf(entries[j].user, event))
                                >= Cardinality(RecordsOf(entries[k].user, event))

\* C25 witness: eleven actors uploaded and the upload ranking holds ten
\* entries
C25_Witness ==
    /\ Rebuilt
    /\ Cardinality(ActorsOf("Upload")) = 11
    /\ Len(Entries("upload")) = 10
    /\ Entries("upload")[10].rank = "10"

\* the position in the input rows of an actor's first record of a category
FirstRecord(username, event) ==
    CHOOSE i \in RecordsOf(username, event) : \A j \in RecordsOf(username, event) : i <= j

\* C26: two actors with equal counts in a ranking type are ranked in the order
\* of their first records of the category in the input rows.
C26_TiesInEncounterOrder ==
    Rebuilt =>
        \A t \in DOMAIN RankingTypes :
            LET entries == Entries(RankingTypes[t].ranking_type)
                event == RankingTypes[t].event
            IN  \A j, k \in DOMAIN entries :
                    (j < k /\ entries[j].count = entries[k].count) =>
                        FirstRecord(entries[j].user, event) < FirstRecord(entries[k].user, event)

\* the fetched profiles of an actor
ProfilesOf(username) ==
    {win_call.info.users[i] : i \in {j \in DOMAIN win_call.info.users :
                                        win_call.info.users[j].name = username}}

\* C27: every ranking entry carries the display name and the email of the
\* actor's fetched profile; the name is "" when the actor has no profile, the
\* email is "" when there is no profile or the profile has no email.
C27_ProfileOrEmptyString ==
    Rebuilt =>
        \A i \in DOMAIN logs :
            LET profiles == ProfilesOf(logs[i].user)
            IN  /\ profiles = {} => (logs[i].name = "" /\ logs[i].email = "")
                /\ \A profile \in profiles :
                      /\ "description" \in DOMAIN profile => logs[i].name = profile.description
                      /\ logs[i].email = IF "email" \in DOMAIN profile THEN profile.email ELSE ""

\* the page has more records than the call asked for
Overfull(i) == Len(pages[i]) > args.page_size

\* C31: in fetch_all_logs a page with more records than limit is accumulated
\* whole and followed by the call at offset + limit, the run neither returning
\* nor failing on it; while every page is overfull the run has not returned
\* and the accumulator holds more than limit records per page.
C31_OverfullPageIsAFullPage ==
    op \in AllLogsOps =>
        /\ \A i \in 1..Len(pages) :
              Overfull(i) =>
                  /\ Len(page_reqs) >= i + 1
                  /\ page_reqs[i + 1].offset = page_reqs[i].offset + args.page_size
                  /\ page_reqs[i + 1].limit = args.page_size
                  /\ SubSeq(all_items, Len(Concat(SubSeq(pages, 1, i - 1))) + 1,
                            Len(Concat(SubSeq(pages, 1, i)))) = pages[i]
        /\ (pages # << >> /\ \A i \in 1..Len(pages) : Overfull(i)) =>
              /\ ~Returned
              /\ Len(all_items) > Len(pages) * args.page_size
              /\ (pc = "page" /\ attempt_number.net = 1 /\ net_count = 0) => result = NoResult

\* C31 witness: two overfull pages in a row, and the third call is under way
C31_Witness ==
    /\ op \in AllLogsOps
    /\ args.page_size = 2
    /\ pc = "page"
    /\ Len(pages) = 2
    /\ Len(pages[1]) = 3
    /\ Len(pages[2]) = 3
    /\ Len(all_items) = 6
    /\ page_reqs[3].offset = 4

\* the attempts at an offset that the state shows: one for every page call at
\* that offset that brought its page, and those of the call under way
AttemptsShown(off) ==
    Cardinality({i \in 1..Len(pages) : page_reqs[i].offset = off})
      + (IF Len(page_reqs) > Len(pages) /\ page_call.offset = off THEN net_count ELSE 0)

\* a page call used up its attempts on transport errors
PageExhausted ==
    /\ Len(page_reqs) > Len(pages)
    /\ last_resp.kind = "transport"
    /\ net_count = MaxAttempts

\* C32 as stated: in one aggregate call each offset is attempted at most 3
\* times in total, the requested offsets never go back to a smaller offset,
\* and a page that exhausts its 3 attempts ends the aggregate call.
C32_OffsetsAttemptedThrice ==
    op \in AllLogsOps =>
        /\ \A i \in 1..Len(page_reqs) : AttemptsShown(page_reqs[i].offset) <= 3
        /\ \A i, j \in 1..Len(page_reqs) :
              i < j => page_reqs[i].offset <= page_reqs[j].offset
        /\ PageExhausted => (Raised /\ Len(page_reqs) = Len(pages) + 1)

\* C32 amended: the outer decorators never start the aggregate call again,
\* each page call makes at most 3 attempts, the i-th page call asks for offset
\* (i - 1) * page_size, and a page call that exhausts its 3 attempts ends the
\* aggregate call; so for page_size >= 1 the offsets strictly increase and
\* each is attempted at most 3 times in total.
C32_RetriesDoNotMultiply ==
    op \in AllLogsOps =>
        /\ attempt_number.all = 1
        /\ attempt_number.wrap = 1
        /\ net_count <= MaxAttempts
        /\ \A i \in 1..Len(page_reqs) : page_reqs[i].offset = (i - 1) * args.page_size
        /\ args.page_size >= 1 =>
              /\ \A i \in 1..Len(page_reqs) : AttemptsShown(page_reqs[i].offset) <= 3
              /\ \A i, j \in 1..Len(page_reqs) :
                    i < j => page_reqs[i].offset < page_reqs[j].offset
        /\ PageExhausted =>
              /\ Raised
              /\ result.exc = "Exception"
              /\ Len(page_reqs) = Len(pages) + 1

\* C32 witness: through a wrapper, the second page call failed three times at
\* transport level and the aggregate call ended there
C32_Witness ==
    /\ op = "fetch_system_logs"
    /\ args.page_size = 1
    /\ Raised
    /\ PageExhausted
    /\ Len(page_reqs) = 2
    /\ page_reqs[2].offset = 1

\* C33: fetch_all_logs with page_size <= 0 never returns: every page the
\* server answers with, whatever its length, is followed by a further page
\* call, with page_size 0 always at offset 0; a run that returned had
\* page_size >= 1.
C33_NoShortPageWithoutPositiveSize ==
    op \in AllLogsOps =>
        /\ Returned => args.page_size >= 1
        /\ args.page_size <= 0 =>
              /\ \A i \in 1..Len(pages) : Len(pages[i]) >= args.page_size
              /\ Len(page_reqs) = Len(pages) + (IF pc = "all_logs" \/ NotSid(sid_before) THEN 0 ELSE 1)
              /\ Ended => Raised
              /\ args.page_size = 0 => \A i \in 1..Len(page_reqs) : page_reqs[i].offset = 0

\* C33 witness: with page_size 0 the server answered twice, once with an
\* empty page, and the third call at offset 0 is under way
C33_Witness ==
    /\ op \in AllLogsOps
    /\ args.page_size = 0
    /\ pc = "page"
    /\ Len(pages) = 2
    /\ pages[1] = << >>
    /\ Len(page_reqs) = 3
    /\ page_reqs[3].offset = 0

\* the call was entered with a token a returned login had stored
EnteredAfterLogin == sid_before \in Tokens

\* C34: a call entered after login returned normally, with whatever token the
\* server placed in data.sid, passes its session check: fetch_all_logs, its
\* wrappers and fetch_user_info do not end with the not-logged-in error, and
\* logout contacts the server.
C34_LoginMeansAuthenticated ==
    /\ (op \in AllLogsOps \cup {"fetch_user_info"} /\ EnteredAfterLogin /\ Ended) =>
          result # Raise("Exception", NotLoggedInMessage(op))
    /\ (op = "logout" /\ EnteredAfterLogin /\ Ended) => net_count >= 1

\* the error codes for which login invokes a callback
CallbackCodes == {400, 408, 409, 410, 404, 406}

\* C35: one login call invokes at most one callback in total, and only with
\* the error response that ends it: none while it is still retrying, none
\* when it returns, none when it fails on exhausted transport errors, none for
\* an error code outside both classes or a missing code.
C35_AtMostOneCallback ==
    op = "login" =>
        /\ cb_password + cb_otp <= 1
        /\ ~Ended => cb_password + cb_otp = 0
        /\ Returned => cb_password + cb_otp = 0
        /\ (Raised /\ last_resp.kind = "transport") => cb_password + cb_otp = 0
        /\ LoginGotError(Codes \ CallbackCodes) => cb_password + cb_otp = 0
        /\ cb_password + cb_otp = 1 =>
              /\ LoginGotError(CallbackCodes)
              /\ Raised
              /\ net_count = attempt_number.net

\* C35 witness: both callbacks supplied, two transport failures, then code
\* 400: the password callback was invoked once and the otp callback not
C35_Witness ==
    /\ LoginGotError({400})
    /\ args.clear_password_callback
    /\ args.clear_otp_callback
    /\ net_count = 3
    /\ cb_password = 1
    /\ cb_otp = 0

FilestationAdd == log_class = "FilesStation_Log" /\ log_call'.name = "add_log"

\* every field the raw record has is a string
StringFields(log) == \A key \in DOMAIN log : log[key] # None

\* the field of the raw record, or the placeholder
OrPlaceholder(log, key) == IF key \in DOMAIN log THEN log[key] ELSE "N/A"

\* the label of the raw record's cmd: that of the verb it spells in any case,
\* the unknown label for any other or a missing cmd
EventLabel(log) ==
    IF "cmd" \in DOMAIN log /\ \E verb \in DOMAIN EVENT_MAPPING : log.cmd \in Spelled(verb)
    THEN EVENT_MAPPING[CHOOSE verb \in DOMAIN EVENT_MAPPING : log.cmd \in Spelled(verb)]
    ELSE "Unknown event"

\* C36: FilesStation_Log.add_log on a raw record whose fields are strings
\* returns and appends exactly one record at the end of the buffer: time, ip,
\* username, filesize and descr as given or "N/A" when missing, the event
\* label of cmd or the unknown label when cmd is missing or unrecognized, and
\* the folder label only when isdir reads "true" in any case.
C36_FilestationAddIsTotal ==
    [][ (FilestationAdd /\ StringFields(log_call'.log)) =>
          LET log == log_call'.log
              entry == logs'[Len(logs')]
          IN  /\ log_result' = Return(None)
              /\ Len(logs') = Len(logs) + 1
              /\ SubSeq(logs', 1, Len(logs)) = logs
              /\ entry.log = "FileStation"
              /\ entry.time = OrPlaceholder(log, "time")
              /\ entry.ip = OrPlaceholder(log, "ip")
              /\ entry.user = OrPlaceholder(log, "username")
              /\ entry.filesize = OrPlaceholder(log, "filesize")
              /\ entry.filename = OrPlaceholder(log, "descr")
              /\ entry.event = EventLabel(log)
              /\ entry.kind = IF "isdir" \in DOMAIN log /\ log.isdir \in {"true", "True", "TRUE"}
                              THEN "Folder" ELSE "File" ]_vars

\* C36 witness: a record without cmd, ip, username, filesize and descr and
\* with isdir in upper case was added after a record without isdir
C36_Witness ==
    /\ log_class = "FilesStation_Log"
    /\ log_call = [name |-> "add_log", log |-> [isdir |-> "TRUE", time |-> "t2"]]
    /\ log_result = Return(None)
    /\ Len(logs) = 2
    /\ logs[1].kind = "File"
    /\ logs[1].event = "Unknown event"
    /\ logs[2] = [log |-> "FileStation", time |-> "t2", ip |-> "N/A", user |-> "N/A",
                  event |-> "Unknown event", kind |-> "Folder", filesize |-> "N/A",
                  filename |-> "N/A"]

\* C37: after every search on the system or the file-station tab, ended
\* normally or cut short, the aggregator's buffer and the filtered list hold
\* the same records in the same order.
C37_BufferIsWhatTheTableShows ==
    win_call.name = "fetch_logs" =>
        /\ Len(logs) = Len(filtered_logs)
        /\ \A i \in 1..Len(logs) : logs[i] = filtered_logs[i]

\* the last search on the rankings tab ended without an error message
RankingSearchCompleted == win_call.name = "fetch_logs" /\ win_call.shown = ""

\* C38: after a ranking search that completes without error the ranking
\* buffer holds the entries of that search's filtered records and nothing of
\* an earlier search: every entry is an actor of its category in those
\* records with that actor's count, and the buffer is empty when no record
\* matched.
C38_RankingBufferIsOfThisSearch ==
    RankingSearchCompleted =>
        /\ ~win_call.populated => logs = << >>
        /\ win_call.populated =>
              \A t \in DOMAIN RankingTypes :
                  LET entries == Entries(RankingTypes[t].ranking_type)
                      event == RankingTypes[t].event
                  IN  \A k \in DOMAIN entries :
                          /\ entries[k].user \in ActorsOf(event)
                          /\ entries[k].count =
                                ToString(Cardinality(RecordsOf(entries[k].user, event)))

\* the date test of the claim: a record with a parseable date passes unless
\* both edits are set and its date is outside start..end
PassesDates(log, f) ==
    /\ Dated(log)
    /\ (f.start_date_text # "" /\ f.end_date_text # "") =>
          /\ strptime_date(f.start_date_text) <= format_date(log.time)
          /\ format_date(log.time) <= strptime_date(f.end_date_text)

\* the records of the batch that pass the date test, in the order of the batch
PassingDates(items, f) ==
    LET Pass(log) == PassesDates(log, f)
    IN  SelectSeq(items, Pass)

\* C39: a search without a category selection that ran to its end shows the
\* records with a parseable date that lie in start..end, both bounds
\* included, when both dates are set, and every record with a parseable date
\* when only one date or none is set; with a selection no shown record lies
\* outside a range that is set at both ends.
C39_DateFilterNeedsBothBounds ==
    (Searched /\ win_call.shown = "") =>
        LET f == win_call.filter
            passing == PassingDates(win_call.fetched.items, f)
        IN  /\ f.selected = None =>
                  /\ Len(filtered_logs) = Len(passing)
                  /\ \A i \in 1..Len(passing) :
                        /\ filtered_logs[i].time = passing[i].time
                        /\ passing[i].descr \in {filtered_logs[i].event, get(filtered_logs[i], "filename", "")}
            /\ \A i \in 1..Len(filtered_logs) :
                  \E j \in 1..Len(passing) : filtered_logs[i].time = passing[j].time

\* C39 witness: with only the start date 2024-01-02 set, a record of
\* 2024/01/01 is shown; with only the end date set, a record of 2024/01/03
C39_Witness ==
    /\ Searched
    /\ win_call.shown = ""
    /\ Len(filtered_logs) = 1
    /\ \/ /\ win_call.filter = Filter("2024-01-02", "", None)
          /\ filtered_logs[1].time = "2024/01/01 08:00:00"
       \/ /\ win_call.filter = Filter("", "2024-01-02", None)
          /\ filtered_logs[1].time = "2024/01/03 00:00:00"

\* the larger of two numbers
Larger(a, b) == IF a >= b THEN a ELSE b

\* the step was a jump that int() refused or whose number is outside
\* 1..total_pages
JumpOutOfRange ==
    /\ win_call'.name = "jump_to_page"
    /\ \/ ~IsInt(win_call'.text)
       \/ int(win_call'.text) < 1
       \/ int(win_call'.text) > total_pages(filtered_logs)

\* what the claim says of one step on the system or the file-station tab
PageStep ==
    /\ log_class \in Classes
    /\ current_page' >= 1
    /\ current_page' <= Larger(1, total_pages(filtered_logs'))
    /\ JumpOutOfRange => current_page' = current_page
    /\ (win_call'.name = "prev_page" /\ current_page = 1) => current_page' = 1
    /\ (win_call'.name = "next_page" /\ current_page >= total_pages(filtered_logs))
          => current_page' = current_page
    /\ (win_call'.name = "fetch_logs" /\ win_call'.fetched.called
          /\ ~win_call'.fetched.raised) => current_page' = 1

\* C40: on the system and the file-station tab every step leaves the current
\* page between 1 and max(1, total pages), total pages being the filtered
\* record count over 100 rounded up; a jump out of range, previous on page 1
\* and next on the last page leave the page as it was; a search that fetched
\* its records leaves page 1.
C40_PageStaysWithinPages == [][PageStep]_vars

=============================================================================
